---------------------------- MODULE Spec2Model ----------------------------
(***************************************************************************)
(* Alert pipeline core of the predictive-maintenance backend:              *)
(*   backend/alert_manager.py      AlertManager (persistence, gate, life-  *)
(*                                 cycle)                                  *)
(*   backend/evaluation_window.py  EvaluationWindow(Manager), risk score   *)
(*   backend/database.py           Database (alerts, maintenance_logs)     *)
(*   backend/ml_stabilizer.py      StabilizedRULPredictor                  *)
(*   backend/config.py             Config                                  *)
(*                                                                         *)
(* Time is the wall clock in whole seconds.  Every datetime.now() read     *)
(* inside one handler yields the same instant `now`.  Risk scores are in   *)
(* thousandths (round(x, 3)), percentages in whole percent.                *)
(***************************************************************************)
EXTENDS Integers, Sequences, FiniteSets, TLC

(***************************************************************************)
(* Bounds of the model                                                     *)
(***************************************************************************)
\* number of small clock steps before the clock stops
MaxTicks == 7
\* number of clock steps of the stabilizer, each half a prediction interval
MaxStabTicks == 4
\* number of sampling periods two threads run side by side
MaxConcTicks == 4
\* number of sampling periods of the pipeline taken alone
MaxPipeTicks == 12
\* number of samples in a window evaluated on its own
MaxProbeSamples == 4

(***************************************************************************)
(* Config (backend/config.py)                                              *)
(***************************************************************************)
RUL_CRITICAL_TRIGGER == 24
RUL_CRITICAL_CLEAR == 28
RUL_WARNING_TRIGGER == 48
RUL_WARNING_CLEAR == 52
HEALTH_CRITICAL_TRIGGER == 30
HEALTH_CRITICAL_CLEAR == 35
HEALTH_WARNING_TRIGGER == 50
HEALTH_WARNING_CLEAR == 55
MAX_ALERTS_PER_MACHINE_PER_MINUTE == 3
MIN_DEGRADED_SENSORS_FOR_CRITICAL == 2
MULTI_SENSOR_REQUIRED_FOR_CRITICAL == TRUE
ANOMALY_CRITICAL_SCORE == 5
EMA_ALPHA_TENTHS == 1
MIN_PREDICTION_INTERVAL_SECONDS == 300
MAX_RUL_HOURS == 144
MIN_RUL_HOURS == 0
ALERT_RETENTION_DAYS == 90
LOG_RETENTION_DAYS == 730
MIN_RESOLUTION_NOTES_LENGTH == 10
MIN_ROOT_CAUSE_LENGTH == 5
\* len(operator_id) < 3 in acknowledge_alert / resolve_alert
MIN_OPERATOR_ID_LENGTH == 3
\* timedelta(seconds=120) in _cleanup_old_pending_alerts
STALE_PENDING_SECONDS == 120
\* timedelta(minutes=1) in _check_rate_limit / _cleanup_old_rate_limit_data
RATE_WINDOW_SECONDS == 60
\* len(self.samples) < 3 in EvaluationWindow.evaluate
MIN_WINDOW_SAMPLES == 3
SECONDS_PER_DAY == 24 * 3600

AlertTypes ==
    {"warning_rul", "critical_rul", "low_health_warning",
     "low_health_critical", "anomaly_detected"}

PERSISTENCE_WINDOWS ==
    [critical_rul |-> 30, warning_rul |-> 60, low_health_critical |-> 30,
     low_health_warning |-> 60, anomaly_detected |-> 45]

\* required_pct_above in percent, risk_threshold in thousandths
EVALUATION_WINDOWS ==
    [warning_rul |->
        [duration_seconds |-> 60, required_pct_above |-> 55,
         require_worsening_trend |-> TRUE, risk_threshold |-> 400],
     critical_rul |->
        [duration_seconds |-> 45, required_pct_above |-> 65,
         require_worsening_trend |-> TRUE, risk_threshold |-> 600],
     low_health_warning |->
        [duration_seconds |-> 60, required_pct_above |-> 55,
         require_worsening_trend |-> TRUE, risk_threshold |-> 400],
     low_health_critical |->
        [duration_seconds |-> 45, required_pct_above |-> 65,
         require_worsening_trend |-> TRUE, risk_threshold |-> 600],
     anomaly_detected |->
        [duration_seconds |-> 90, required_pct_above |-> 50,
         require_worsening_trend |-> FALSE, risk_threshold |-> 300]]

\* vibration in hundredths of mm/s, temperature in degrees, pressure in PSI
SENSOR_DEGRADATION_THRESHOLDS ==
    [vibration_x |-> 150, vibration_y |-> 150, temperature |-> 85,
     pressure_low |-> 90, rpm_low |-> 1350]

VALID_ALERT_TRANSITIONS ==
    {<<"ACTIVE", "ACKNOWLEDGED">>, <<"ACKNOWLEDGED", "IN_PROGRESS">>,
     <<"ACKNOWLEDGED", "RESOLVED">>, <<"IN_PROGRESS", "RESOLVED">>,
     <<"RESOLVED", "LOGGED">>}

UnresolvedStates == {"ACTIVE", "ACKNOWLEDGED", "IN_PROGRESS"}

(***************************************************************************)
(* Inputs                                                                  *)
(***************************************************************************)
Machines == {"M-001"}
\* the sampling period: half the shortest persistence window
TickSeconds == PERSISTENCE_WINDOWS.critical_rul \div 2

\* sensor readings: vibration in hundredths of mm/s
NormalSensors ==
    [vibration_x |-> 50, vibration_y |-> 50, temperature |-> 70,
     pressure |-> 100, rpm |-> 1500]
DegradedSensors ==
    [vibration_x |-> 260, vibration_y |-> 255, temperature |-> 92,
     pressure |-> 95, rpm |-> 1420]

\* the arguments of one check_and_create_alerts call besides machine_id
CallInput(rul_hours, health_score, is_anomaly, anomaly_score, sensor_data) ==
    [rul_hours |-> rul_hours, health_score |-> health_score,
     is_anomaly |-> is_anomaly, anomaly_score |-> anomaly_score,
     sensor_data |-> sensor_data]

\* a healthy reading, readings in the warning band, and readings in the
\* critical band with a growing anomaly score
Healthy == CallInput(60, 60, FALSE, 0, NormalSensors)
Warn0 == CallInput(40, 45, FALSE, 0, NormalSensors)
Warn3 == CallInput(40, 45, FALSE, 3, NormalSensors)
Warn6 == CallInput(40, 45, FALSE, 6, NormalSensors)
Warn9 == CallInput(40, 45, FALSE, 9, NormalSensors)
Crit0 == CallInput(20, 25, FALSE, 0, DegradedSensors)
Crit3 == CallInput(20, 25, FALSE, 3, DegradedSensors)
Crit6 == CallInput(20, 25, TRUE, 6, DegradedSensors)

\* the readings a machine delivers, one per sampling instant: a critical
\* degradation, one with a dip back into the warning band, a slow warning
\* degradation, a degradation with a lasting anomaly, and readings that
\* move between the warning and the critical band
DipToWarning ==
    <<Crit0, Crit0, Crit3, Warn0, Crit6, Healthy, Healthy, Healthy>>
SlowWarning ==
    <<Healthy, Warn0, Warn0, Warn0, Warn0, Warn0, Warn3, Healthy>>
Profiles ==
    {<<Crit0, Crit0, Crit3, Crit0, Crit3, Crit3, Crit0, Crit6>>,
     DipToWarning, SlowWarning,
     <<Crit0, Crit0, Crit6, Crit6, Crit6, Crit6, Healthy, Healthy>>,
     <<Warn0, Crit0, Warn6, Crit0, Crit0, Crit0, Warn9, Healthy>>}

\* a critical RUL on a machine whose health score stays above every health
\* threshold, the anomaly score creeping up: one alert type at a time
RulOnly ==
    [i \in 1..8 |-> CallInput(20, 60, FALSE, i + 1, DegradedSensors)]

\* the readings under which the lifecycle operations are exercised
LifecycleProfiles == {RulOnly, DipToWarning, SlowWarning}

Operators == {"OP-001", "x"}
ResolveInputs ==
    {[operator_id |-> "OP-001", root_cause |-> "Bearing wear",
      resolution_notes |-> "Replaced bearing, tested operation.",
      downtime_minutes |-> 120],
     [operator_id |-> "x", root_cause |-> "Bearing wear",
      resolution_notes |-> "Replaced bearing, tested operation.",
      downtime_minutes |-> 120],
     [operator_id |-> "OP-001", root_cause |-> "bad",
      resolution_notes |-> "Replaced bearing, tested operation.",
      downtime_minutes |-> 120],
     [operator_id |-> "OP-001", root_cause |-> "Bearing wear",
      resolution_notes |-> "short", downtime_minutes |-> 120],
     [operator_id |-> "OP-001", root_cause |-> "Bearing wear",
      resolution_notes |-> "Replaced bearing, tested operation.",
      downtime_minutes |-> -1]}

(***************************************************************************)
(* State                                                                   *)
(***************************************************************************)
VARIABLES
    now,              \* datetime.now()
    windows,          \* EvaluationWindowManager.windows: key -> samples
    pending_alerts,   \* AlertManager.pending_alerts: key -> PendingAlert
    recent_alerts,    \* AlertManager.recent_alerts: machine -> timestamps
    alerts,           \* table alerts; a row's id is its index
    maintenance_logs, \* table maintenance_logs: log id -> row
    emitted,          \* history: per alert id, the pending entry it came from
    feed,             \* the readings the machine delivers
    prediction_history,    \* StabilizedRULPredictor: machine -> [(rul, health)]
    stable_predictions,    \* StabilizedRULPredictor: machine -> (rul, health)
    last_prediction_time,  \* StabilizedRULPredictor: machine -> time
    rul_track,        \* history: what predict_rul returned, per machine
    alert_manager,    \* the module global of alert_manager.py: 0 is None
    managers,         \* the AlertManager objects made by get_alert_manager
    threads,          \* the threads that call into alert_manager.py
    evaluation,       \* one EvaluationWindow and what evaluate() said of it
    last_call,        \* how the last check_and_create_alerts call ended
    predictions,      \* MetricsTracker.predictions; an id is the index
    failures,         \* MetricsTracker.failures; an id is the index
    probe             \* one call of a function: its arguments and result

stabVars ==
    <<prediction_history, stable_predictions, last_prediction_time, rul_track>>

concVars == <<alert_manager, managers, threads>>

metricVars == <<predictions, failures>>

probeVars == <<evaluation, last_call, metricVars, probe>>

vars ==
    <<now, windows, pending_alerts, recent_alerts, alerts, maintenance_logs,
      emitted, feed, stabVars, concVars, probeVars>>

(***************************************************************************)
(* Helpers                                                                 *)
(***************************************************************************)
RECURSIVE SeqSum(_)
SeqSum(s) == IF s = <<>> THEN 0 ELSE Head(s) + SeqSum(Tail(s))

Max2(a, b) == IF a >= b THEN a ELSE b
Min2(a, b) == IF a <= b THEN a ELSE b

\* dict.get(key, default)
DictGet(d, k, default) == IF k \in DOMAIN d THEN d[k] ELSE default
\* d[k] = v
DictSet(d, k, v) == [x \in DOMAIN d \cup {k} |-> IF x = k THEN v ELSE d[x]]
\* del d[k]
DictDel(d, k) == [x \in DOMAIN d \ {k} |-> d[x]]

\* round(n / d) to the nearest integer, ties to even (Python round), d > 0
RoundDiv(n, d) ==
    LET q == n \div d
        r == n % d
    IN  IF 2 * r < d THEN q
        ELSE IF 2 * r > d THEN q + 1
        ELSE IF q % 2 = 0 THEN q ELSE q + 1


(***************************************************************************)
(* evaluation_window.py                                                    *)
(***************************************************************************)
\* a risk score without the last clamp
RiskScoreUnclamped(rul_hours, health_score, anomaly_score) ==
    LET rul_risk_144 == Max2(0, Min2(MAX_RUL_HOURS, MAX_RUL_HOURS - rul_hours))
        health_risk_100 == Max2(0, Min2(100, 100 - health_score))
        anomaly_risk_10 == Min2(10, anomaly_score)
    IN  RoundDiv(1000 * rul_risk_144 + 1008 * health_risk_100
                     + 4320 * anomaly_risk_10, 288)

\* calculate_risk_score: the score in thousandths.  With rul in hours,
\* health in percent and the anomaly score as integers,
\*   1000 * (0.5 * rul_risk + 0.35 * health_risk + 0.15 * anomaly_risk)
\* is the sum below over 288; each component is clamped as in the code
\* (the anomaly component has no lower clamp).
calculate_risk_score(rul_hours, health_score, anomaly_score) ==
    LET rul_risk_144 == Max2(0, Min2(MAX_RUL_HOURS, MAX_RUL_HOURS - rul_hours))
        health_risk_100 == Max2(0, Min2(100, 100 - health_score))
        anomaly_risk_10 == Min2(10, anomaly_score)
        combined_288 ==
            1000 * rul_risk_144 + 1008 * health_risk_100
                + 4320 * anomaly_risk_10
    IN  RoundDiv(Min2(288000, Max2(0, combined_288)), 288)

\* a pruning that keeps every sample
PruneNothing(samples, duration_seconds, t) ==
    samples

\* EvaluationWindow._prune_old_samples
PruneOldSamples(samples, duration_seconds, t) ==
    SelectSeq(samples, LAMBDA s : s.timestamp >= t - duration_seconds)

\* EvaluationWindow._calculate_trend.  The slope is
\*   num / (n * sum(x^2) - sum(x)^2 + 1e-10) * 60
\* whose denominator is positive once the samples span a second or more, so
\* the slope's sign is the sign of num, which is what is returned.
CalculateTrend(samples) ==
    LET n == Len(samples)
        t0 == samples[1].timestamp
        x == [i \in 1..n |-> samples[i].timestamp - t0]
        y == [i \in 1..n |-> samples[i].risk_score]
        xy == [i \in 1..n |-> x[i] * y[i]]
    IN  IF n < 2 THEN 0
        ELSE IF x[n] - x[1] < 1 THEN 0
        ELSE n * SeqSum(xy) - SeqSum(x) * SeqSum(y)

\* an evaluation without the minimum number of samples
WindowMayProceedAnyCount(samples, cfg) ==
    LET n == Len(samples)
        risks == [i \in 1..n |-> samples[i].risk_score]
        above == Cardinality({i \in 1..n : risks[i] >= cfg.risk_threshold})
        condition_mean == SeqSum(risks) >= cfg.risk_threshold * n
        condition_trend ==
            (~cfg.require_worsening_trend) \/ CalculateTrend(samples) > 0
        condition_pct == above * 100 >= cfg.required_pct_above * n
    IN  n > 0 /\ condition_mean /\ condition_trend /\ condition_pct

\* an evaluation that takes a flat trend for a worsening one
WindowMayProceedFlatTrend(samples, cfg) ==
    LET n == Len(samples)
        risks == [i \in 1..n |-> samples[i].risk_score]
        above == Cardinality({i \in 1..n : risks[i] >= cfg.risk_threshold})
        condition_mean == SeqSum(risks) >= cfg.risk_threshold * n
        condition_trend ==
            (~cfg.require_worsening_trend) \/ CalculateTrend(samples) >= 0
        condition_pct == above * 100 >= cfg.required_pct_above * n
    IN  IF n < MIN_WINDOW_SAMPLES THEN FALSE
        ELSE condition_mean /\ condition_trend /\ condition_pct

\* EvaluationWindow.evaluate on the pruned samples: may_proceed
WindowMayProceed(samples, cfg) ==
    LET n == Len(samples)
        risks == [i \in 1..n |-> samples[i].risk_score]
        above == Cardinality({i \in 1..n : risks[i] >= cfg.risk_threshold})
        condition_mean == SeqSum(risks) >= cfg.risk_threshold * n
        condition_trend ==
            (~cfg.require_worsening_trend) \/ CalculateTrend(samples) > 0
        condition_pct == above * 100 >= cfg.required_pct_above * n
    IN  IF n < MIN_WINDOW_SAMPLES THEN FALSE
        ELSE condition_mean /\ condition_trend /\ condition_pct

\* EvaluationWindow.evaluate: the window is pruned, then evaluated
WindowEvaluate(samples, cfg, t) ==
    WindowMayProceed(PruneOldSamples(samples, cfg.duration_seconds, t), cfg)

\* EvaluationWindowManager.evaluate: no window, no approval; else the
\* window's evaluate
ManagerEvaluate(w, machine_id, alert_type, t) ==
    LET key == <<machine_id, alert_type>>
    IN  IF key \notin DOMAIN w THEN FALSE
        ELSE WindowEvaluate(w[key], EVALUATION_WINDOWS[alert_type], t)

\* EvaluationWindowManager.add_sample / EvaluationWindow.add_sample for one
\* key: the window is created on first use, the sample appended, the window
\* pruned.  (health_score, rul_hours and sensors of a WindowSample are
\* stored and never read; they are left out.)
ManagerAddSample(w, machine_id, alert_type, risk_score, t) ==
    LET key == <<machine_id, alert_type>>
        old == DictGet(w, key, <<>>)
        sample == [timestamp |-> t, risk_score |-> risk_score]
    IN  DictSet(w, key,
            PruneOldSamples(Append(old, sample),
                EVALUATION_WINDOWS[alert_type].duration_seconds, t))

\* a feed that adds the sample to the windows of every machine
FeedEveryWindow(w, machine_id, risk_score, t) ==
    LET keys == {<<machine_id, a>> : a \in AlertTypes}
    IN  [k \in DOMAIN w \cup keys |->
            ManagerAddSample(w, k[1], k[2], risk_score, t)[k]]

\* check_and_create_alerts, step 2: the sample goes to all five windows
FeedAllWindows(w, machine_id, risk_score, t) ==
    LET keys == {<<machine_id, a>> : a \in AlertTypes}
    IN  [k \in DOMAIN w \cup keys |->
            IF k \in keys
            THEN ManagerAddSample(w, machine_id, k[2], risk_score, t)[k]
            ELSE w[k]]

(***************************************************************************)
(* database.py: the alerts table                                            *)
(***************************************************************************)
NULL == "NULL"

\* two rows of one (machine_id, alert_type)
SameKey(a, b) ==
    a.machine_id = b.machine_id /\ a.alert_type = b.alert_type

\* a duplicate check that looks at ACTIVE rows only
CheckDuplicateActiveOnly(rows, machine_id, alert_type) ==
    \E i \in 1..Len(rows) :
        /\ rows[i].machine_id = machine_id
        /\ rows[i].alert_type = alert_type
        /\ rows[i].state = "ACTIVE"

\* a duplicate check that any row of the key satisfies, resolved or not
CheckDuplicateAnyState(rows, machine_id, alert_type) ==
    \E i \in 1..Len(rows) :
        /\ rows[i].machine_id = machine_id
        /\ rows[i].alert_type = alert_type

\* Database.check_duplicate_alert
CheckDuplicateAlert(rows, machine_id, alert_type) ==
    \E i \in 1..Len(rows) :
        /\ rows[i].machine_id = machine_id
        /\ rows[i].alert_type = alert_type
        /\ rows[i].state \in UnresolvedStates

\* Database.create_alert: an unconditional INSERT of an ACTIVE row.  The id
\* (a fresh uuid in the code) is the row's index.  The columns message and
\* details are written and never read back by the code modelled here, and
\* are left out.
DbCreateAlert(rows, machine_id, alert_type, severity, t) ==
    Append(rows,
        [machine_id |-> machine_id, alert_type |-> alert_type,
         severity |-> severity, created_at |-> t, state |-> "ACTIVE",
         acknowledged_by |-> NULL, acknowledged_at |-> NULL,
         resolved_by |-> NULL, resolved_at |-> NULL,
         resolution_notes |-> NULL, root_cause |-> NULL,
         downtime_minutes |-> NULL])

(***************************************************************************)
(* alert_manager.py: the pipeline of check_and_create_alerts.               *)
(* The handler runs under AlertManager._lock; its working state is the      *)
(* record st = [pending, recent, alerts, created, emits]:                   *)
(*   created  the ids returned (created_alerts)                             *)
(*   emits    history: for each alert created, the pending entry it was     *)
(*            emitted from                                                  *)
(***************************************************************************)
EmptyDict == [k \in {} |-> 0]

\* PendingAlert.__init__.  `sustained` is a history field, not in the code:
\* it records whether the trigger threshold of the alert type held on every
\* call for the machine since the entry was created.
NewPendingAlert(alert_type, severity, t) ==
    [alert_type |-> alert_type, severity |-> severity, first_triggered |-> t,
     last_triggered |-> t, trigger_count |-> 1, sustained |-> TRUE]

\* PendingAlert.update
PendingUpdate(pending, t) ==
    [pending EXCEPT !.last_triggered = t,
                    !.trigger_count = pending.trigger_count + 1]

\* a persistence test that counts triggers instead of measuring time
PersistentByCount(pending, required_seconds) ==
    pending.trigger_count >= 2

\* PendingAlert.is_persistent
IsPersistent(pending, required_seconds) ==
    pending.last_triggered - pending.first_triggered >= required_seconds

\* a sweep that deletes one stale entry per run
CleanupOneStalePendingAlert(pend, t) ==
    LET stale_keys ==
            {k \in DOMAIN pend :
                pend[k].last_triggered < t - STALE_PENDING_SECONDS}
    IN  IF stale_keys = {} THEN pend
        ELSE LET key == CHOOSE k \in stale_keys : TRUE
             IN  [k \in DOMAIN pend \ {key} |-> pend[k]]

\* AlertManager._cleanup_old_pending_alerts
CleanupOldPendingAlerts(pend, t) ==
    LET stale_keys ==
            {k \in DOMAIN pend :
                pend[k].last_triggered < t - STALE_PENDING_SECONDS}
    IN  [k \in DOMAIN pend \ stale_keys |-> pend[k]]

\* AlertManager._cleanup_old_rate_limit_data
CleanupOldRateLimitData(recent, t) ==
    LET kept(m) ==
            SelectSeq(recent[m], LAMBDA x : x > t - RATE_WINDOW_SECONDS)
    IN  [m \in {x \in DOMAIN recent : kept(x) # <<>>} |-> kept(m)]

\* AlertManager._check_rate_limit: the bucket it stores back
RateLimitBucket(recent, machine_id, t) ==
    SelectSeq(DictGet(recent, machine_id, <<>>),
        LAMBDA x : x > t - RATE_WINDOW_SECONDS)

\* AlertManager._check_rate_limit: its verdict
CheckRateLimit(recent, machine_id, t) ==
    Len(RateLimitBucket(recent, machine_id, t))
        < MAX_ALERTS_PER_MACHINE_PER_MINUTE

\* AlertManager._check_multi_sensor_confirmation: degraded_count
DegradedCount(sensor_data) ==
    LET th == SENSOR_DEGRADATION_THRESHOLDS
    IN  (IF sensor_data.vibration_x > th.vibration_x THEN 1 ELSE 0)
        + (IF sensor_data.vibration_y > th.vibration_y THEN 1 ELSE 0)
        + (IF sensor_data.temperature > th.temperature THEN 1 ELSE 0)
        + (IF sensor_data.pressure < th.pressure_low THEN 1 ELSE 0)
        + (IF sensor_data.rpm < th.rpm_low THEN 1 ELSE 0)

\* AlertManager._check_multi_sensor_confirmation
CheckMultiSensorConfirmation(sensor_data, severity) ==
    IF severity # "critical" \/ ~MULTI_SENSOR_REQUIRED_FOR_CRITICAL
    THEN TRUE
    ELSE DegradedCount(sensor_data) >= MIN_DEGRADED_SENSORS_FOR_CRITICAL

\* an emit step that inserts without the duplicate check
CreateAlertUnchecked(st, machine_id, alert_type, severity, from, t) ==
    [st EXCEPT
        !.alerts = DbCreateAlert(@, machine_id, alert_type, severity, t),
        !.recent = DictSet(@, machine_id,
                       Append(DictGet(@, machine_id, <<>>), t)),
        !.created = Append(@, Len(st.alerts) + 1),
        !.emits = Append(@,
            [key |-> <<machine_id, alert_type>>,
             first_triggered |-> from.first_triggered,
             last_triggered |-> from.last_triggered,
             sustained |-> from.sustained])]

\* AlertManager._create_alert_if_new
CreateAlertIfNew(st, machine_id, alert_type, severity, from, t) ==
    IF CheckDuplicateAlert(st.alerts, machine_id, alert_type)
    THEN st
    ELSE [st EXCEPT
            !.alerts = DbCreateAlert(@, machine_id, alert_type, severity, t),
            !.recent = DictSet(@, machine_id,
                           Append(DictGet(@, machine_id, <<>>), t)),
            !.created = Append(@, Len(st.alerts) + 1),
            !.emits = Append(@,
                [key |-> <<machine_id, alert_type>>,
                 first_triggered |-> from.first_triggered,
                 last_triggered |-> from.last_triggered,
                 sustained |-> from.sustained])]

\* AlertManager._process_alert_with_persistence
ProcessAlertWithPersistence(st, machine_id, alert_type, severity, t) ==
    LET key == <<machine_id, alert_type>>
        required_seconds == PERSISTENCE_WINDOWS[alert_type]
    IN  IF key \in DOMAIN st.pending
        THEN LET pending == PendingUpdate(st.pending[key], t)
             IN  IF IsPersistent(pending, required_seconds)
                 THEN CreateAlertIfNew(
                          [st EXCEPT !.pending = DictDel(@, key)],
                          machine_id, alert_type, severity,
                          [first_triggered |-> pending.first_triggered,
                           last_triggered |-> pending.last_triggered,
                           sustained |-> pending.sustained], t)
                 ELSE [st EXCEPT !.pending = DictSet(@, key, pending)]
        ELSE [st EXCEPT !.pending =
                 DictSet(@, key, NewPendingAlert(alert_type, severity, t))]

\* AlertManager._clear_pending_alert
ClearPendingAlert(st, machine_id, alert_type) ==
    [st EXCEPT !.pending = DictDel(@, <<machine_id, alert_type>>)]

\* an RUL section whose WARNING test is an `if` of its own, not an `elif`
RulBranchNoElif(st, w, machine_id, inp, t) ==
    LET s1 == IF /\ inp.rul_hours < RUL_CRITICAL_TRIGGER
                 /\ ManagerEvaluate(w, machine_id, "critical_rul", t)
                 /\ CheckMultiSensorConfirmation(inp.sensor_data, "critical")
              THEN ProcessAlertWithPersistence(
                       st, machine_id, "critical_rul", "critical", t)
              ELSE st
    IN  IF /\ inp.rul_hours < RUL_WARNING_TRIGGER
           /\ ManagerEvaluate(w, machine_id, "warning_rul", t)
        THEN ProcessAlertWithPersistence(
                 s1, machine_id, "warning_rul", "warning", t)
        ELSE s1

\* check_and_create_alerts, CRITICAL RUL / WARNING RUL / else
RulBranch(st, w, machine_id, inp, t) ==
    IF inp.rul_hours < RUL_CRITICAL_TRIGGER
    THEN IF /\ ManagerEvaluate(w, machine_id, "critical_rul", t)
            /\ CheckMultiSensorConfirmation(inp.sensor_data, "critical")
         THEN ProcessAlertWithPersistence(
                  st, machine_id, "critical_rul", "critical", t)
         ELSE st
    ELSE IF inp.rul_hours < RUL_WARNING_TRIGGER
    THEN IF ManagerEvaluate(w, machine_id, "warning_rul", t)
         THEN ProcessAlertWithPersistence(
                  st, machine_id, "warning_rul", "warning", t)
         ELSE st
    ELSE LET s1 == IF inp.rul_hours > RUL_WARNING_CLEAR
                   THEN ClearPendingAlert(st, machine_id, "warning_rul")
                   ELSE st
         IN  IF inp.rul_hours > RUL_CRITICAL_CLEAR
             THEN ClearPendingAlert(s1, machine_id, "critical_rul")
             ELSE s1

\* check_and_create_alerts, CRITICAL HEALTH / WARNING HEALTH / else
HealthBranch(st, w, machine_id, inp, t) ==
    IF inp.health_score < HEALTH_CRITICAL_TRIGGER
    THEN IF /\ ManagerEvaluate(w, machine_id, "low_health_critical", t)
            /\ CheckMultiSensorConfirmation(inp.sensor_data, "critical")
         THEN ProcessAlertWithPersistence(
                  st, machine_id, "low_health_critical", "critical", t)
         ELSE st
    ELSE IF inp.health_score < HEALTH_WARNING_TRIGGER
    THEN IF ManagerEvaluate(w, machine_id, "low_health_warning", t)
         THEN ProcessAlertWithPersistence(
                  st, machine_id, "low_health_warning", "warning", t)
         ELSE st
    ELSE LET s1 == IF inp.health_score > HEALTH_WARNING_CLEAR
                   THEN ClearPendingAlert(st, machine_id, "low_health_warning")
                   ELSE st
         IN  IF inp.health_score > HEALTH_CRITICAL_CLEAR
             THEN ClearPendingAlert(s1, machine_id, "low_health_critical")
             ELSE s1

\* check_and_create_alerts, ANOMALY
AnomalyBranch(st, w, machine_id, inp, t) ==
    IF inp.is_anomaly
    THEN LET severity ==
                 IF inp.anomaly_score > ANOMALY_CRITICAL_SCORE
                 THEN "critical" ELSE "warning"
         IN  IF ManagerEvaluate(w, machine_id, "anomaly_detected", t)
             THEN ProcessAlertWithPersistence(
                      st, machine_id, "anomaly_detected", severity, t)
             ELSE st
    ELSE ClearPendingAlert(st, machine_id, "anomaly_detected")

\* the trigger threshold of an alert type against one call's inputs
TriggerHolds(alert_type, inp) ==
    CASE alert_type = "critical_rul" -> inp.rul_hours < RUL_CRITICAL_TRIGGER
      [] alert_type = "warning_rul" -> inp.rul_hours < RUL_WARNING_TRIGGER
      [] alert_type = "low_health_critical" ->
             inp.health_score < HEALTH_CRITICAL_TRIGGER
      [] alert_type = "low_health_warning" ->
             inp.health_score < HEALTH_WARNING_TRIGGER
      [] OTHER -> inp.is_anomaly

\* history only: an entry of the machine whose trigger threshold does not
\* hold on this call is no longer `sustained`
MarkSustained(pend, machine_id, inp) ==
    [k \in DOMAIN pend |->
        IF k[1] = machine_id /\ ~TriggerHolds(k[2], inp)
        THEN [pend[k] EXCEPT !.sustained = FALSE]
        ELSE pend[k]]

\* history only: what is recorded for the alerts one call created; whether
\* the pending entry existed is read off the state before the call, the
\* number of samples in the alert type's window and of degraded sensors off
\* the call itself
EmitRecords(emits, pend_before, w, inp) ==
    IF emits = <<>> THEN <<>>
    ELSE [i \in 1..Len(emits) |->
             [had_pending |-> emits[i].key \in DOMAIN pend_before,
              first_triggered |-> emits[i].first_triggered,
              last_triggered |-> emits[i].last_triggered,
              sustained |-> emits[i].sustained,
              window_samples |-> Len(DictGet(w, emits[i].key, <<>>)),
              degraded_count |-> DegradedCount(inp.sensor_data)]]

\* AlertManager.check_and_create_alerts, the part under self._lock after
\* the rate-limit check
RunPipeline(st, w, machine_id, inp, t) ==
    LET s1 == RulBranch(st, w, machine_id, inp, t)
        s2 == HealthBranch(s1, w, machine_id, inp, t)
    IN  AnomalyBranch(s2, w, machine_id, inp, t)

\* AlertManager.check_and_create_alerts(machine_id, sensor_data, rul_hours,
\*     health_score, is_anomaly, anomaly_score)
CheckAndCreateAlerts(machine_id, inp) ==
    LET p0 == CleanupOldPendingAlerts(pending_alerts, now)
        r0 == CleanupOldRateLimitData(recent_alerts, now)
        r1 == DictSet(r0, machine_id, RateLimitBucket(r0, machine_id, now))
    IN  IF ~CheckRateLimit(r0, machine_id, now)
        THEN /\ pending_alerts' = MarkSustained(p0, machine_id, inp)
             /\ recent_alerts' = r1
             /\ UNCHANGED <<now, windows, alerts, maintenance_logs, emitted,
                            feed>>
        ELSE LET risk_score ==
                     calculate_risk_score(inp.rul_hours, inp.health_score,
                                          inp.anomaly_score)
                 w1 == FeedAllWindows(windows, machine_id, risk_score, now)
                 st0 == [pending |-> p0, recent |-> r1, alerts |-> alerts,
                         created |-> <<>>, emits |-> <<>>]
                 st1 == RunPipeline(st0, w1, machine_id, inp, now)
             IN  /\ windows' = w1
                 /\ pending_alerts' =
                        MarkSustained(st1.pending, machine_id, inp)
                 /\ recent_alerts' = st1.recent
                 /\ alerts' = st1.alerts
                 /\ emitted' =
                        emitted \o EmitRecords(st1.emits, pending_alerts,
                                               w1, inp)
                 /\ UNCHANGED <<now, maintenance_logs, feed>>

(***************************************************************************)
(* Lifecycle: alert_manager.py over database.py                             *)
(***************************************************************************)
\* an UPDATE that does not look at the state of the row
DbAcknowledgeAnyState(rows, alert_id, operator_id, t) ==
    IF alert_id \in 1..Len(rows)
    THEN [rows EXCEPT ![alert_id].state = "ACKNOWLEDGED",
                      ![alert_id].acknowledged_by = operator_id,
                      ![alert_id].acknowledged_at = t]
    ELSE rows

\* Database.acknowledge_alert: UPDATE ... WHERE id = ? AND state = 'ACTIVE'
DbAcknowledgeAlert(rows, alert_id, operator_id, t) ==
    IF alert_id \in 1..Len(rows) /\ rows[alert_id].state = "ACTIVE"
    THEN [rows EXCEPT ![alert_id].state = "ACKNOWLEDGED",
                      ![alert_id].acknowledged_by = operator_id,
                      ![alert_id].acknowledged_at = t]
    ELSE rows

\* an acknowledge that writes to the store before it validates the operator
AcknowledgeUnvalidated(rows, alert_id, operator_id, t) ==
    LET updated == DbAcknowledgeAlert(rows, alert_id, operator_id, t)
    IN  [alerts |-> updated,
         success |-> /\ Len(operator_id) >= MIN_OPERATOR_ID_LENGTH
                     /\ updated # rows]

\* an acknowledge that does not look at the state of the row
AcknowledgeAnyState(rows, alert_id, operator_id, t) ==
    IF /\ Len(operator_id) >= MIN_OPERATOR_ID_LENGTH
       /\ alert_id \in 1..Len(rows)
    THEN [alerts |-> [rows EXCEPT ![alert_id].state = "ACKNOWLEDGED",
                                  ![alert_id].acknowledged_by = operator_id,
                                  ![alert_id].acknowledged_at = t],
          success |-> TRUE]
    ELSE [alerts |-> rows, success |-> FALSE]

\* AlertManager.acknowledge_alert: the error of the result, as the words
\* it is made of; none when the call gets as far as the store
AcknowledgeError(rows, alert_id, operator_id) ==
    IF Len(operator_id) < MIN_OPERATOR_ID_LENGTH THEN <<"Invalid operator ID">>
    ELSE IF alert_id \notin 1..Len(rows) THEN <<"Alert not found">>
    ELSE IF rows[alert_id].state # "ACTIVE"
    THEN <<"Alert is", rows[alert_id].state,
           "can only acknowledge ACTIVE alerts">>
    ELSE <<>>

\* AlertManager.acknowledge_alert: the table it leaves and the success it
\* returns
AcknowledgeOutcome(rows, alert_id, operator_id, t) ==
    LET valid ==
            /\ Len(operator_id) >= MIN_OPERATOR_ID_LENGTH
            /\ alert_id \in 1..Len(rows)
            /\ rows[alert_id].state = "ACTIVE"
        updated == DbAcknowledgeAlert(rows, alert_id, operator_id, t)
    IN  IF valid
        THEN [alerts |-> updated, success |-> updated # rows]
        ELSE [alerts |-> rows, success |-> FALSE]

AcknowledgeAlert(alert_id, operator_id) ==
    /\ alerts' =
           AcknowledgeOutcome(alerts, alert_id, operator_id, now).alerts
    /\ UNCHANGED <<now, windows, pending_alerts, recent_alerts,
                   maintenance_logs, emitted, feed>>

\* the id "LOG-" + alert_id
LogIdOf(alert_id) == <<"LOG", alert_id>>

\* an UPDATE to RESOLVED that writes the state and the operator only
ResolvedRowsStateOnly(rows, alert_id, inp, t) ==
    [rows EXCEPT ![alert_id].state = "RESOLVED",
                 ![alert_id].resolved_by = inp.operator_id]

\* Database.resolve_alert, the UPDATE: the row set to RESOLVED
ResolvedRows(rows, alert_id, inp, t) ==
    [rows EXCEPT ![alert_id].state = "RESOLVED",
                 ![alert_id].resolved_by = inp.operator_id,
                 ![alert_id].resolved_at = t,
                 ![alert_id].resolution_notes = inp.resolution_notes,
                 ![alert_id].root_cause = inp.root_cause,
                 ![alert_id].downtime_minutes = inp.downtime_minutes]

\* Database.resolve_alert, the INSERT: the maintenance log of the alert
ResolveLog(rows, alert_id, inp, t) ==
    [machine_id |-> rows[alert_id].machine_id, alert_id |-> alert_id,
     created_at |-> rows[alert_id].created_at, resolved_at |-> t,
     operator |-> inp.operator_id, root_cause |-> inp.root_cause,
     resolution_notes |-> inp.resolution_notes,
     downtime_minutes |-> inp.downtime_minutes,
     severity |-> rows[alert_id].severity,
     alert_type |-> rows[alert_id].alert_type]

\* a resolve whose UPDATE survives the failing INSERT
DbResolveNoRollback(rows, logs, alert_id, inp, t) ==
    IF alert_id \notin 1..Len(rows)
    THEN [alerts |-> rows, logs |-> logs, result |-> "false"]
    ELSE IF rows[alert_id].state \notin {"ACKNOWLEDGED", "IN_PROGRESS"}
    THEN [alerts |-> rows, logs |-> logs, result |-> "false"]
    ELSE IF LogIdOf(alert_id) \in DOMAIN logs
    THEN [alerts |-> ResolvedRows(rows, alert_id, inp, t), logs |-> logs,
          result |-> "raised"]
    ELSE [alerts |-> ResolvedRows(rows, alert_id, inp, t),
          logs |-> DictSet(logs, LogIdOf(alert_id),
                           ResolveLog(rows, alert_id, inp, t)),
          result |-> "true"]

\* Database.resolve_alert: one transaction.  [alerts, logs, result]; the
\* UPDATE matches no row (False), or the INSERT fails because the log id is
\* taken, raises, and get_connection rolls the UPDATE back, or both are
\* committed (True).
DbResolveAlert(rows, logs, alert_id, inp, t) ==
    IF alert_id \notin 1..Len(rows)
    THEN [alerts |-> rows, logs |-> logs, result |-> "false"]
    ELSE IF rows[alert_id].state \notin {"ACKNOWLEDGED", "IN_PROGRESS"}
    THEN [alerts |-> rows, logs |-> logs, result |-> "false"]
    ELSE IF LogIdOf(alert_id) \in DOMAIN logs
    THEN [alerts |-> rows, logs |-> logs, result |-> "raised"]
    ELSE [alerts |-> ResolvedRows(rows, alert_id, inp, t),
          logs |-> DictSet(logs, LogIdOf(alert_id),
                           ResolveLog(rows, alert_id, inp, t)),
          result |-> "true"]

\* a resolve that does not look at the state of the row
ResolveAnyState(rows, logs, alert_id, inp, t) ==
    IF /\ Len(inp.operator_id) >= MIN_OPERATOR_ID_LENGTH
       /\ Len(inp.root_cause) >= MIN_ROOT_CAUSE_LENGTH
       /\ Len(inp.resolution_notes) >= MIN_RESOLUTION_NOTES_LENGTH
       /\ inp.downtime_minutes >= 0
       /\ alert_id \in 1..Len(rows)
    THEN [alerts |-> ResolvedRows(rows, alert_id, inp, t),
          logs |-> DictSet(logs, LogIdOf(alert_id),
                           ResolveLog(rows, alert_id, inp, t)),
          success |-> TRUE, raised |-> FALSE]
    ELSE [alerts |-> rows, logs |-> logs, success |-> FALSE,
          raised |-> FALSE]

\* AlertManager.resolve_alert: the error of the result, as the words it is
\* made of; none when the call gets as far as the store
ResolveError(rows, alert_id, inp) ==
    IF Len(inp.operator_id) < MIN_OPERATOR_ID_LENGTH
    THEN <<"Invalid operator ID">>
    ELSE IF Len(inp.root_cause) < MIN_ROOT_CAUSE_LENGTH
    THEN <<"Root cause must be at least", MIN_ROOT_CAUSE_LENGTH, "characters">>
    ELSE IF Len(inp.resolution_notes) < MIN_RESOLUTION_NOTES_LENGTH
    THEN <<"Resolution notes must be at least", MIN_RESOLUTION_NOTES_LENGTH,
           "characters">>
    ELSE IF inp.downtime_minutes < 0 THEN <<"Downtime cannot be negative">>
    ELSE IF alert_id \notin 1..Len(rows) THEN <<"Alert not found">>
    ELSE IF rows[alert_id].state \notin {"ACKNOWLEDGED", "IN_PROGRESS"}
    THEN <<"Alert is", rows[alert_id].state,
           "can only resolve ACKNOWLEDGED or IN_PROGRESS alerts">>
    ELSE <<>>

\* AlertManager.resolve_alert: the tables it leaves, the success it returns,
\* and whether the store raised instead
ResolveOutcome(rows, logs, alert_id, inp, t) ==
    LET valid ==
            /\ Len(inp.operator_id) >= MIN_OPERATOR_ID_LENGTH
            /\ Len(inp.root_cause) >= MIN_ROOT_CAUSE_LENGTH
            /\ Len(inp.resolution_notes) >= MIN_RESOLUTION_NOTES_LENGTH
            /\ inp.downtime_minutes >= 0
            /\ alert_id \in 1..Len(rows)
            /\ rows[alert_id].state \in {"ACKNOWLEDGED", "IN_PROGRESS"}
        db == DbResolveAlert(rows, logs, alert_id, inp, t)
    IN  IF valid
        THEN [alerts |-> db.alerts, logs |-> db.logs,
              success |-> db.result = "true", raised |-> db.result = "raised"]
        ELSE [alerts |-> rows, logs |-> logs, success |-> FALSE,
              raised |-> FALSE]

ResolveAlert(alert_id, inp) ==
    LET out == ResolveOutcome(alerts, maintenance_logs, alert_id, inp, now)
    IN  /\ alerts' = out.alerts
        /\ maintenance_logs' = out.logs
        /\ UNCHANGED <<now, windows, pending_alerts, recent_alerts, emitted,
                       feed>>

\* an archival that ignores the state of the row
DbArchiveAnyState(rows, alert_cutoff) ==
    IF rows = <<>> THEN rows
    ELSE [i \in 1..Len(rows) |->
             IF rows[i].created_at < alert_cutoff
             THEN [rows[i] EXCEPT !.state = "LOGGED"]
             ELSE rows[i]]

\* Database.cleanup_old_data: UPDATE alerts SET state = 'LOGGED'
\* WHERE state = 'RESOLVED' AND resolved_at < cutoff
DbArchiveAlerts(rows, alert_cutoff) ==
    IF rows = <<>> THEN rows
    ELSE [i \in 1..Len(rows) |->
             IF /\ rows[i].state = "RESOLVED"
                /\ rows[i].resolved_at < alert_cutoff
             THEN [rows[i] EXCEPT !.state = "LOGGED"]
             ELSE rows[i]]

\* Database.cleanup_old_data: DELETE FROM maintenance_logs
\* WHERE resolved_at < cutoff
DbDeleteOldLogs(logs, log_cutoff) ==
    [k \in {x \in DOMAIN logs : ~(logs[x].resolved_at < log_cutoff)} |->
        logs[k]]

\* Database.cleanup_old_data
CleanupOldData ==
    LET alert_cutoff == now - ALERT_RETENTION_DAYS * SECONDS_PER_DAY
        log_cutoff == now - LOG_RETENTION_DAYS * SECONDS_PER_DAY
    IN  /\ alerts' = DbArchiveAlerts(alerts, alert_cutoff)
        /\ maintenance_logs' = DbDeleteOldLogs(maintenance_logs, log_cutoff)
        /\ UNCHANGED <<now, windows, pending_alerts, recent_alerts, emitted,
                       feed>>

(***************************************************************************)
(* Maintenance-log routes of server.py over database.py                     *)
(***************************************************************************)
\* POST /api/logs -> Database.create_maintenance_log with a request that
\* carries machine_id, action and the id of the row.  A taken id makes the
\* INSERT raise and nothing is written.  The request names no alert: the
\* alert_id column is None, written 0 here (alert ids start at 1).
CreateMaintenanceLog(machine_id, log_id) ==
    LET row == [machine_id |-> machine_id, alert_id |-> 0,
                created_at |-> now, resolved_at |-> now,
                operator |-> "System", root_cause |-> "Inspection",
                resolution_notes |-> "", downtime_minutes |-> 60,
                severity |-> "info", alert_type |-> "Inspection"]
    IN  /\ maintenance_logs' =
               IF log_id \in DOMAIN maintenance_logs THEN maintenance_logs
               ELSE DictSet(maintenance_logs, log_id, row)
        /\ UNCHANGED <<now, windows, pending_alerts, recent_alerts, alerts,
                       emitted, feed>>

\* DELETE /api/logs/<log_id> -> Database.delete_maintenance_log
DeleteMaintenanceLog(log_id) ==
    /\ maintenance_logs' = DictDel(maintenance_logs, log_id)
    /\ UNCHANGED <<now, windows, pending_alerts, recent_alerts, alerts,
                   emitted, feed>>

\* PUT /api/logs/<log_id> -> Database.update_maintenance_log with the
\* request {"operator": operator}
UpdateMaintenanceLog(log_id, operator) ==
    /\ maintenance_logs' =
           IF log_id \in DOMAIN maintenance_logs
           THEN [maintenance_logs EXCEPT ![log_id].operator = operator]
           ELSE maintenance_logs
    /\ UNCHANGED <<now, windows, pending_alerts, recent_alerts, alerts,
                   emitted, feed>>

(***************************************************************************)
(* The clock                                                                *)
(***************************************************************************)
\* the horizon of the sampling instants
MaxTime == MaxTicks * TickSeconds
AlertRetentionJump == ALERT_RETENTION_DAYS * SECONDS_PER_DAY + TickSeconds
LogRetentionJump == LOG_RETENTION_DAYS * SECONDS_PER_DAY + TickSeconds

\* time passes: a sampling period or, past the horizon, a retention period
Tick ==
    /\ \/ /\ now + TickSeconds <= MaxTime
          /\ now' = now + TickSeconds
       \/ /\ now = MaxTime
          /\ now' = now + AlertRetentionJump
       \/ /\ now = MaxTime + AlertRetentionJump
          /\ now' = now + LogRetentionJump
    /\ UNCHANGED <<windows, pending_alerts, recent_alerts, alerts,
                   maintenance_logs, emitted, feed>>

(***************************************************************************)
(* Specification: one AlertManager, handlers run one at a time              *)
(***************************************************************************)
\* at most one sample per machine and clock instant
Sampled(machine_id) ==
    /\ <<machine_id, "anomaly_detected">> \in DOMAIN windows
    /\ \E i \in 1..Len(windows[<<machine_id, "anomaly_detected">>]) :
           windows[<<machine_id, "anomaly_detected">>][i].timestamp = now

\* the reading delivered at the current instant
Reading ==
    feed[Min2(now \div TickSeconds + 1, Len(feed))]

AlertIds == 1..Len(alerts)
KnownLogIds == {LogIdOf(i) : i \in AlertIds}

\* StabilizedRULPredictor.__init__
InitStabilizer ==
    /\ prediction_history = EmptyDict
    /\ stable_predictions = EmptyDict
    /\ last_prediction_time = EmptyDict
    /\ rul_track = EmptyDict

\* AlertManager.__init__, EvaluationWindowManager.__init__, an empty store
InitPipeline ==
    /\ now = 0
    /\ windows = EmptyDict
    /\ pending_alerts = EmptyDict
    /\ recent_alerts = EmptyDict
    /\ alerts = <<>>
    /\ maintenance_logs = EmptyDict
    /\ emitted = <<>>

\* the one AlertManager of server.py (alert_mgr, made at import) is the
\* object whose fields are pending_alerts and recent_alerts; no thread goes
\* through get_alert_manager
InitOneManager ==
    /\ alert_manager = 0
    /\ managers = EmptyDict
    /\ threads = EmptyDict

\* no window is evaluated on its own and no call has ended yet
NoEvaluation ==
    [exists |-> FALSE, given |-> <<>>, samples |-> <<>>, cfg |-> <<>>,
     done |-> FALSE, may_proceed |-> FALSE]
\* no function has been called on its own
NoProbe == [done |-> FALSE]
NoCall ==
    [store_failed |-> FALSE, raised |-> FALSE, created |-> <<>>,
     inserted |-> <<>>]

InitProbe ==
    /\ evaluation = NoEvaluation
    /\ last_call = NoCall
    /\ predictions = <<>>
    /\ failures = <<>>
    /\ probe = NoProbe

Init ==
    /\ InitPipeline
    /\ InitStabilizer
    /\ InitOneManager
    /\ InitProbe
    /\ feed \in LifecycleProfiles

\* the four operations on the alerts table, and the clock
Next ==
    \/ /\ \E m \in Machines : ~Sampled(m) /\ CheckAndCreateAlerts(m, Reading)
       /\ UNCHANGED <<stabVars, concVars, probeVars>>
    \/ /\ \E id \in AlertIds, op \in Operators : AcknowledgeAlert(id, op)
       /\ UNCHANGED <<stabVars, concVars, probeVars>>
    \/ /\ \E id \in AlertIds, inp \in ResolveInputs : ResolveAlert(id, inp)
       /\ UNCHANGED <<stabVars, concVars, probeVars>>
    \/ CleanupOldData /\ UNCHANGED <<stabVars, concVars, probeVars>>
    \/ Tick /\ UNCHANGED <<stabVars, concVars, probeVars>>

Spec == Init /\ [][Next]_vars

\* the store and its REST routes, with a late critical degradation
InitStore ==
    /\ InitPipeline
    /\ InitStabilizer
    /\ InitOneManager
    /\ InitProbe
    /\ feed = RulOnly

NextStore ==
    \/ Next
    \/ /\ \E m \in Machines, id \in KnownLogIds : CreateMaintenanceLog(m, id)
       /\ UNCHANGED <<stabVars, concVars, probeVars>>
    \/ /\ \E id \in KnownLogIds : DeleteMaintenanceLog(id)
       /\ UNCHANGED <<stabVars, concVars, probeVars>>
    \/ /\ \E id \in KnownLogIds : UpdateMaintenanceLog(id, "OP-002")
       /\ UNCHANGED <<stabVars, concVars, probeVars>>

SpecStore == InitStore /\ [][NextStore]_vars

(***************************************************************************)
(* ml_stabilizer.py: StabilizedRULPredictor                                 *)
(* A stored rul is in units of 1/(10 * StabScale) hours, a stored health in *)
(* units of 1/StabScale percent: every EMA step divides by ten, and at most *)
(* MaxStabTicks steps are taken, so the arithmetic is exact.  Returned      *)
(* values are in tenths of an hour and hundredths of a percent.             *)
(***************************************************************************)
StabScale == 10 ^ MaxStabTicks
StabTickSeconds == MIN_PREDICTION_INTERVAL_SECONDS \div 2
MaxStabTime == MaxStabTicks * StabTickSeconds

\* what the raw predictor returns: (rul in tenths of an hour, health in
\* whole percent), pairs that _heuristic_rul produces
RawPredictions ==
    {[rul |-> 1440, health |-> 100], [rul |-> 912, health |-> 78],
     [rul |-> 204, health |-> 34]}

\* a stabilizer that returns the smoothed value without the monotonic bound
EmaOnly(ema_rul, prev_rul) ==
    ema_rul

\* _stabilize_prediction: stable_rul = min(ema_rul, prev_rul)
MonotonicRul(ema_rul, prev_rul) ==
    Min2(ema_rul, prev_rul)

\* _stabilize_prediction: alpha * raw + (1 - alpha) * prev
Ema(raw, prev) ==
    (EMA_ALPHA_TENTHS * raw + (10 - EMA_ALPHA_TENTHS) * prev) \div 10

\* StabilizedRULPredictor._stabilize_prediction: [history, rul, health] with
\* the history it leaves and the pair it returns
StabilizePrediction(hist, machine_id, raw) ==
    LET history == DictGet(hist, machine_id, <<>>)
        raw_rul == raw.rul * StabScale
        raw_health == raw.health * StabScale
        prev == history[Len(history)]
        ema_rul == Ema(raw_rul, prev.rul)
        ema_health == Ema(raw_health, prev.health)
        stable_rul ==
            Max2(MIN_RUL_HOURS * 10 * StabScale,
                 Min2(MonotonicRul(ema_rul, prev.rul),
                      MAX_RUL_HOURS * 10 * StabScale))
        stable_health ==
            Max2(0, Min2(100 * StabScale,
                IF 100 * ema_health > 105 * prev.health
                THEN prev.health ELSE ema_health))
    IN  IF history = <<>>
        THEN [history |->
                  DictSet(hist, machine_id,
                      <<[rul |-> raw_rul, health |-> raw_health]>>),
              rul |-> raw.rul, health |-> 100 * raw.health]
        ELSE [history |->
                  DictSet(hist, machine_id,
                      Append(history,
                          [rul |-> stable_rul, health |-> stable_health])),
              rul |-> RoundDiv(stable_rul, StabScale),
              health |-> RoundDiv(100 * stable_health, StabScale)]

\* history only: the returns of predict_rul for one machine.
\*   last     the rul returned by the last call since the last reset, as a
\*            sequence of length one, or <<>>
\*   last_nb  the same, forgotten again at every bypass call
\*   rose     some call returned more than the call before it, with no
\*            reset in between
\*   rose_nb  the same, with neither a reset nor a bypass call in between or
\*            as one of the two calls
\*   held     a smoothed call whose raw prediction lay above the previous
\*            return returned no more than that
NoTrack ==
    [last |-> <<>>, last_nb |-> <<>>, rose |-> FALSE, rose_nb |-> FALSE,
     held |-> FALSE]

Track(tr, machine_id, raw_rul, rul, bypass) ==
    LET old == DictGet(tr, machine_id, NoTrack)
    IN  DictSet(tr, machine_id,
            [last |-> <<rul>>,
             last_nb |-> IF bypass THEN <<>> ELSE <<rul>>,
             rose |-> old.rose \/ (old.last # <<>> /\ rul > old.last[1]),
             rose_nb |->
                 \/ old.rose_nb
                 \/ /\ ~bypass
                    /\ old.last_nb # <<>>
                    /\ rul > old.last_nb[1],
             held |->
                 \/ old.held
                 \/ /\ ~bypass
                    /\ old.last_nb # <<>>
                    /\ raw_rul > old.last_nb[1]
                    /\ rul <= old.last_nb[1]])

\* a predict_rul that refreshes on every call without bypass
PredictRulUncached(machine_id, raw, bypass_smoothing) ==
    IF bypass_smoothing
    THEN /\ prediction_history' = DictDel(prediction_history, machine_id)
         /\ stable_predictions' = DictDel(stable_predictions, machine_id)
         /\ last_prediction_time' = DictDel(last_prediction_time, machine_id)
         /\ rul_track' = Track(rul_track, machine_id, raw.rul, raw.rul, TRUE)
    ELSE LET out == StabilizePrediction(prediction_history, machine_id, raw)
         IN  /\ prediction_history' = out.history
             /\ stable_predictions' =
                    DictSet(stable_predictions, machine_id,
                            [rul |-> out.rul, health |-> out.health])
             /\ last_prediction_time' =
                    DictSet(last_prediction_time, machine_id, now)
             /\ rul_track' =
                    Track(rul_track, machine_id, raw.rul, out.rul, FALSE)

\* a reset_machine that empties the history and keeps the cache
ResetKeepsCache(machine_id) ==
    /\ prediction_history' =
           IF machine_id \in DOMAIN prediction_history
           THEN DictSet(prediction_history, machine_id, <<>>)
           ELSE prediction_history
    /\ UNCHANGED <<stable_predictions, last_prediction_time, rul_track>>

\* StabilizedRULPredictor.predict_rul(sensor_data, machine_id,
\*     bypass_smoothing), with the raw predictor's answer `raw`
PredictRul(machine_id, raw, bypass_smoothing) ==
    IF bypass_smoothing
    THEN /\ prediction_history' = DictDel(prediction_history, machine_id)
         /\ stable_predictions' = DictDel(stable_predictions, machine_id)
         /\ last_prediction_time' = DictDel(last_prediction_time, machine_id)
         /\ rul_track' = Track(rul_track, machine_id, raw.rul, raw.rul, TRUE)
    ELSE IF /\ machine_id \in DOMAIN last_prediction_time
            /\ now - last_prediction_time[machine_id]
                   < MIN_PREDICTION_INTERVAL_SECONDS
            /\ machine_id \in DOMAIN stable_predictions
    THEN /\ rul_track' =
                Track(rul_track, machine_id, raw.rul,
                      stable_predictions[machine_id].rul, FALSE)
         /\ UNCHANGED <<prediction_history, stable_predictions,
                        last_prediction_time>>
    ELSE LET out == StabilizePrediction(prediction_history, machine_id, raw)
         IN  /\ prediction_history' = out.history
             /\ stable_predictions' =
                    DictSet(stable_predictions, machine_id,
                            [rul |-> out.rul, health |-> out.health])
             /\ last_prediction_time' =
                    DictSet(last_prediction_time, machine_id, now)
             /\ rul_track' =
                    Track(rul_track, machine_id, raw.rul, out.rul, FALSE)

\* StabilizedRULPredictor.reset_machine
ResetMachine(machine_id) ==
    /\ prediction_history' =
           IF machine_id \in DOMAIN prediction_history
           THEN DictSet(prediction_history, machine_id, <<>>)
           ELSE prediction_history
    /\ stable_predictions' = DictDel(stable_predictions, machine_id)
    /\ last_prediction_time' = DictDel(last_prediction_time, machine_id)
    /\ rul_track' =
           IF machine_id \in DOMAIN rul_track
           THEN [rul_track EXCEPT ![machine_id].last = <<>>,
                                  ![machine_id].last_nb = <<>>]
           ELSE rul_track

\* half a prediction interval passes
TickStabilizer ==
    /\ now + StabTickSeconds <= MaxStabTime
    /\ now' = now + StabTickSeconds
    /\ UNCHANGED stabVars

(***************************************************************************)
(* Specification of the stabilizer alone                                    *)
(***************************************************************************)
pipelineVars ==
    <<windows, pending_alerts, recent_alerts, alerts, maintenance_logs,
      emitted, feed>>

InitStab ==
    /\ InitPipeline
    /\ InitStabilizer
    /\ InitOneManager
    /\ InitProbe
    /\ feed = <<Healthy>>

NextStab ==
    \/ /\ \E m \in Machines, raw \in RawPredictions, b \in BOOLEAN :
              PredictRul(m, raw, b)
       /\ UNCHANGED <<now, pipelineVars, concVars, probeVars>>
    \/ /\ \E m \in Machines : ResetMachine(m)
       /\ UNCHANGED <<now, pipelineVars, concVars, probeVars>>
    \/ TickStabilizer /\ UNCHANGED <<pipelineVars, concVars, probeVars>>

SpecStab == InitStab /\ [][NextStab]_vars

\* C8, as stated: over any sequence of predict_rul calls for a machine, with
\* or without bypass_smoothing and with no reset_machine call in between,
\* the returned rul_hours never rises.
C8_NonIncreasing ==
    \A m \in DOMAIN rul_track : ~rul_track[m].rose

\* C8, amended: over any sequence of predict_rul calls without
\* bypass_smoothing for a machine, with neither a reset_machine call nor a
\* bypass_smoothing call in between, the returned rul_hours never rises.
C8_NonIncreasingSmoothed ==
    \A m \in DOMAIN rul_track : ~rul_track[m].rose_nb

\* C8 at work: the raw prediction rose above the previous return and the
\* smoothed call returned no more than before
C8_Witness ==
    \E m \in DOMAIN rul_track \cap DOMAIN prediction_history :
        /\ rul_track[m].held
        /\ Len(prediction_history[m]) >= 2

(***************************************************************************)
(* Threads.  Each thread gets its AlertManager from get_alert_manager and   *)
(* then calls check_and_create_alerts on it.  A call runs under the lock of *)
(* that AlertManager; its steps are cut at the calls into the store         *)
(* (check_duplicate_alert, create_alert), each its own transaction.  The    *)
(* window manager and the store are shared by all AlertManagers.            *)
(***************************************************************************)
Threads == {"T1", "T2"}
MaxConcTime == MaxConcTicks * TickSeconds

\* AlertManager.__init__
NewManager == [pending |-> EmptyDict, recent |-> EmptyDict, lock |-> "free"]

NewThread == [pc |-> "start", mgr |-> 0, called |-> <<>>, row |-> <<>>]

\* get_alert_manager: `if alert_manager is None`
GetManagerTest(t) ==
    /\ threads[t].pc = "start"
    /\ threads' =
           IF alert_manager = 0
           THEN [threads EXCEPT ![t].pc = "construct"]
           ELSE [threads EXCEPT ![t].pc = "idle", ![t].mgr = alert_manager]
    /\ UNCHANGED <<now, pipelineVars, stabVars, probeVars, alert_manager, managers>>

\* get_alert_manager: `alert_manager = AlertManager()`
GetManagerConstruct(t) ==
    LET id == Cardinality(DOMAIN managers) + 1
    IN  /\ threads[t].pc = "construct"
        /\ managers' = DictSet(managers, id, NewManager)
        /\ alert_manager' = id
        /\ threads' = [threads EXCEPT ![t].pc = "return"]
        /\ UNCHANGED <<now, pipelineVars, stabVars, probeVars>>

\* get_alert_manager: `return alert_manager`
GetManagerReturn(t) ==
    /\ threads[t].pc = "return"
    /\ threads' = [threads EXCEPT ![t].pc = "idle", ![t].mgr = alert_manager]
    /\ UNCHANGED <<now, pipelineVars, stabVars, probeVars, alert_manager, managers>>

\* the part of check_and_create_alerts that follows branch b
AfterBranch(b) ==
    CASE b = "rul" -> "health"
      [] b = "health" -> "anomaly"
      [] OTHER -> "idle"

\* one branch of check_and_create_alerts up to its call of
\* check_duplicate_alert, run by thread t on its manager against the store as
\* it is now.  When the branch goes on to create_alert, the row is kept for
\* the step that inserts it; leaving the last branch releases the lock.
RunBranch(t, b, mg, w) ==
    LET k == threads[t].mgr
        st0 == [pending |-> mg.pending, recent |-> mg.recent,
                alerts |-> alerts, created |-> <<>>, emits |-> <<>>]
        st1 == CASE b = "rul" -> RulBranch(st0, w, "M-001", Reading, now)
                 [] b = "health" ->
                        HealthBranch(st0, w, "M-001", Reading, now)
                 [] OTHER -> AnomalyBranch(st0, w, "M-001", Reading, now)
        inserts == Len(st1.alerts) > Len(alerts)
        next == IF inserts THEN "insert" ELSE AfterBranch(b)
    IN  /\ managers' =
               [managers EXCEPT
                   ![k] = [mg EXCEPT !.pending = st1.pending,
                                     !.lock = IF next = "idle"
                                              THEN "free" ELSE t]]
        /\ threads' =
               [threads EXCEPT
                   ![t].pc = next,
                   ![t].called = <<now>>,
                   ![t].row = IF inserts
                              THEN <<[branch |-> b,
                                      alert_type |->
                                          st1.alerts[Len(st1.alerts)].alert_type,
                                      severity |->
                                          st1.alerts[Len(st1.alerts)].severity]>>
                              ELSE <<>>]

\* check_and_create_alerts from `with self._lock` to the first store call
EnterCheck(t) ==
    LET k == threads[t].mgr
        mg == managers[k]
        p0 == CleanupOldPendingAlerts(mg.pending, now)
        r0 == CleanupOldRateLimitData(mg.recent, now)
        r1 == DictSet(r0, "M-001", RateLimitBucket(r0, "M-001", now))
        risk_score ==
            calculate_risk_score(Reading.rul_hours, Reading.health_score,
                                 Reading.anomaly_score)
        w1 == FeedAllWindows(windows, "M-001", risk_score, now)
    IN  /\ threads[t].pc = "idle"
        /\ threads[t].called # <<now>>
        /\ mg.lock = "free"
        /\ IF ~CheckRateLimit(r0, "M-001", now)
           THEN /\ managers' =
                       [managers EXCEPT ![k].pending = p0, ![k].recent = r1]
                /\ threads' = [threads EXCEPT ![t].called = <<now>>]
                /\ UNCHANGED windows
           ELSE /\ windows' = w1
                /\ RunBranch(t, "rul",
                       [mg EXCEPT !.pending = p0, !.recent = r1], w1)
        /\ UNCHANGED <<now, pending_alerts, recent_alerts, alerts,
                       maintenance_logs, emitted, feed, stabVars, probeVars,
                       alert_manager>>

\* check_and_create_alerts: the health and the anomaly branch
ContinueCheck(t) ==
    /\ threads[t].pc \in {"health", "anomaly"}
    /\ RunBranch(t, threads[t].pc, managers[threads[t].mgr], windows)
    /\ UNCHANGED <<now, pipelineVars, stabVars, probeVars, alert_manager>>

\* _create_alert_if_new after the duplicate check: Database.create_alert,
\* then the rate-limit bookkeeping
InsertAlert(t) ==
    LET k == threads[t].mgr
        row == threads[t].row[1]
        next == AfterBranch(row.branch)
    IN  /\ threads[t].pc = "insert"
        /\ alerts' =
               DbCreateAlert(alerts, "M-001", row.alert_type, row.severity,
                             now)
        /\ managers' =
               [managers EXCEPT
                   ![k].recent =
                       DictSet(@, "M-001",
                               Append(DictGet(@, "M-001", <<>>), now)),
                   ![k].lock = IF next = "idle" THEN "free" ELSE t]
        /\ threads' = [threads EXCEPT ![t].pc = next, ![t].row = <<>>]
        /\ UNCHANGED <<now, windows, pending_alerts, recent_alerts,
                       maintenance_logs, emitted, feed, stabVars, probeVars,
                       alert_manager>>

\* a sampling period passes between calls
TickThreads ==
    /\ \A t \in Threads : threads[t].pc = "idle"
    /\ now + TickSeconds <= MaxConcTime
    /\ now' = now + TickSeconds
    /\ UNCHANGED <<pipelineVars, stabVars, concVars, probeVars>>

InitConc ==
    /\ InitPipeline
    /\ InitStabilizer
    /\ InitProbe
    /\ alert_manager = 0
    /\ managers = EmptyDict
    /\ threads = [t \in Threads |-> NewThread]
    /\ feed = <<Crit0, Crit0, Crit3, Crit0, Crit3>>

NextConc ==
    \/ \E t \in Threads : GetManagerTest(t)
    \/ \E t \in Threads : GetManagerConstruct(t)
    \/ \E t \in Threads : GetManagerReturn(t)
    \/ \E t \in Threads : EnterCheck(t)
    \/ \E t \in Threads : ContinueCheck(t)
    \/ \E t \in Threads : InsertAlert(t)
    \/ TickThreads

SpecConc == InitConc /\ [][NextConc]_vars

C3_StoreRefusesDuplicate ==
    [][\A i \in 1..Len(alerts') :
           (i > Len(alerts) /\ alerts'[i].state \in UnresolvedStates)
               => ~CheckDuplicateAlert(alerts, alerts'[i].machine_id,
                                       alerts'[i].alert_type)]_vars

(***************************************************************************)
(* Specification of check_and_create_alerts alone: one AlertManager, no     *)
(* lifecycle operation, readings at and around the thresholds               *)
(***************************************************************************)
MaxPipeTime == MaxPipeTicks * TickSeconds

\* an anomaly of score 6 on a machine whose sensors are all normal
AnomalyOnNormalSensors ==
    [i \in 1..3 |-> CallInput(60, 60, TRUE, 6, NormalSensors)]

\* a critical degradation, then readings at the clear thresholds of the
\* critical types (28 h, 35 %), just above them, at the clear thresholds of
\* the warning types (52 h, 55 %) and just above those
AroundClearThresholds ==
    <<Crit0, Crit0, Crit3,
      CallInput(RUL_CRITICAL_CLEAR, HEALTH_CRITICAL_CLEAR, FALSE, 10,
                NormalSensors),
      CallInput(RUL_CRITICAL_CLEAR + 1, HEALTH_CRITICAL_CLEAR + 1, FALSE, 10,
                NormalSensors),
      CallInput(RUL_WARNING_CLEAR, HEALTH_WARNING_CLEAR, FALSE, 10,
                NormalSensors),
      CallInput(RUL_WARNING_CLEAR + 1, HEALTH_WARNING_CLEAR + 1, FALSE, 10,
                NormalSensors),
      Healthy>>

\* RUL alternating 47 h, 49 h, ... around the warning trigger, the anomaly
\* score creeping up
AlternatingRul ==
    [i \in 1..(MaxPipeTicks + 1) |->
        CallInput(IF i % 2 = 1 THEN RUL_WARNING_TRIGGER - 1
                  ELSE RUL_WARNING_TRIGGER + 1,
                  60, FALSE, Min2(i - 1, 10), NormalSensors)]

\* a critical degradation that keeps worsening
RisingCritical ==
    [i \in 1..(MaxPipeTicks + 1) |->
        CallInput(20, 25, FALSE, Min2(i - 1, 10), DegradedSensors)]

PipeProfiles ==
    Profiles \cup {AnomalyOnNormalSensors, AroundClearThresholds,
                   AlternatingRul, RisingCritical}

TickPipe ==
    /\ now + TickSeconds <= MaxPipeTime
    /\ now' = now + TickSeconds
    /\ UNCHANGED <<pipelineVars, stabVars, concVars, probeVars>>

InitPipe ==
    /\ InitPipeline
    /\ InitStabilizer
    /\ InitOneManager
    /\ InitProbe
    /\ feed \in PipeProfiles

NextPipe ==
    \/ /\ \E m \in Machines : ~Sampled(m) /\ CheckAndCreateAlerts(m, Reading)
       /\ UNCHANGED <<stabVars, concVars, probeVars>>
    \/ TickPipe

SpecPipe == InitPipe /\ [][NextPipe]_vars

\* C11: every alert persisted with severity critical, whatever its type, was
\* emitted on a sample in which at least MIN_DEGRADED_SENSORS_FOR_CRITICAL
\* of the five sensor checks are degraded.
C11_CriticalNeedsTwoSensors ==
    \A i \in AlertIds :
        alerts[i].severity = "critical"
            => emitted[i].degraded_count >= MIN_DEGRADED_SENSORS_FOR_CRITICAL

\* the alert types that have a clear threshold, the threshold, and the
\* value of a reading it is compared with
HysteresisTypes ==
    {"warning_rul", "critical_rul", "low_health_warning",
     "low_health_critical"}

ClearThreshold(alert_type) ==
    CASE alert_type = "warning_rul" -> RUL_WARNING_CLEAR
      [] alert_type = "critical_rul" -> RUL_CRITICAL_CLEAR
      [] alert_type = "low_health_warning" -> HEALTH_WARNING_CLEAR
      [] OTHER -> HEALTH_CRITICAL_CLEAR

ClearValue(alert_type, inp) ==
    IF alert_type \in {"warning_rul", "critical_rul"}
    THEN inp.rul_hours ELSE inp.health_score

\* C12: for each of warning_rul, critical_rul, low_health_warning and
\* low_health_critical, a check_and_create_alerts call whose RUL/health value
\* equals the type's clear threshold leaves an existing pending entry of the
\* type in place, and a call whose value is strictly above the clear
\* threshold removes the pending entry.
C12_ClearStrictlyAbove ==
    [][\A m \in Machines, a \in HysteresisTypes :
           (~Sampled(m) /\ Sampled(m)') =>
               /\ (/\ ClearValue(a, Reading) = ClearThreshold(a)
                   /\ <<m, a>> \in DOMAIN pending_alerts)
                      => <<m, a>> \in DOMAIN pending_alerts'
               /\ ClearValue(a, Reading) > ClearThreshold(a)
                      => <<m, a>> \notin DOMAIN pending_alerts']_vars

\* the rows of one alert type
RowsOfType(alert_type) == {i \in AlertIds : alerts[i].alert_type = alert_type}

\* C13: with RUL readings alternating 47 h, 49 h, 47 h, ... around the
\* warning trigger and no lifecycle operation applied, at most one
\* warning_rul alert is ever created.
C13_NoOscillation ==
    feed = AlternatingRul => Cardinality(RowsOfType("warning_rul")) <= 1

\* C13 at work: the warning_rul alert exists, and a later call at 47 h whose
\* window approves has used up a pending entry without creating a second
C13_Witness ==
    /\ feed = AlternatingRul
    /\ \E i \in RowsOfType("warning_rul"), m \in Machines :
           /\ now >= alerts[i].created_at + PERSISTENCE_WINDOWS.warning_rul
           /\ Sampled(m)
           /\ Reading.rul_hours < RUL_WARNING_TRIGGER
           /\ ManagerEvaluate(windows, m, "warning_rul", now)
           /\ <<m, "warning_rul">> \notin DOMAIN pending_alerts

\* C14: a single sample above the trigger threshold produces no alert: no
\* alert of type T is created for machine M by a call in which M's window
\* for T holds fewer than 3 samples, nor by the call in which the pending
\* entry for (M, T) is first created, and the first check_and_create_alerts
\* call for a machine creates nothing.
C14_SingleSampleNoAlert ==
    /\ [][\A m \in Machines :
              <<m, "anomaly_detected">> \notin DOMAIN windows
                  => alerts' = alerts]_vars
    /\ [](\A i \in AlertIds :
              /\ emitted[i].window_samples >= MIN_WINDOW_SAMPLES
              /\ emitted[i].had_pending
              /\ emitted[i].first_triggered < alerts[i].created_at)

\* C14 at work: an alert created by a call whose window held exactly three
\* samples
C14_Witness ==
    \E i \in AlertIds :
        /\ emitted[i].window_samples = MIN_WINDOW_SAMPLES
        /\ emitted[i].first_triggered < alerts[i].created_at

(***************************************************************************)
(* Specification of EvaluationWindowManager.evaluate alone: one window      *)
(* (or none) with samples and a configuration drawn from small sets         *)
(***************************************************************************)
\* the configurations of config.py and one that sets every condition aside
ProbeConfigs ==
    {EVALUATION_WINDOWS[a] : a \in AlertTypes}
        \cup {[duration_seconds |-> 60, required_pct_above |-> 0,
               require_worsening_trend |-> FALSE, risk_threshold |-> 0]}

ProbeTimes == {0, 40, 80}
ProbeRisks == {200, 700}
ProbeNows == {80, 120}

\* the samples a window can hold: up to MaxProbeSamples of them, in the
\* order of their timestamps
ProbeSamples ==
    LET one == [timestamp : ProbeTimes, risk_score : ProbeRisks]
        all == UNION {[1..n -> one] : n \in 0..MaxProbeSamples}
    IN  {s \in all :
            \A i \in 1..Len(s) - 1 : s[i].timestamp <= s[i + 1].timestamp}

\* EvaluationWindowManager.evaluate for the key of the window: no window, no
\* approval; else EvaluationWindow.evaluate, which prunes the window's
\* samples and decides
EvaluateCall ==
    /\ ~evaluation.done
    /\ evaluation' =
           IF ~evaluation.exists
           THEN [evaluation EXCEPT !.done = TRUE, !.may_proceed = FALSE]
           ELSE [evaluation EXCEPT
                    !.done = TRUE,
                    !.samples =
                        PruneOldSamples(@, evaluation.cfg.duration_seconds,
                                        now),
                    !.may_proceed =
                        WindowEvaluate(evaluation.samples, evaluation.cfg,
                                       now)]
    /\ UNCHANGED <<now, pipelineVars, stabVars, concVars, last_call,
                   metricVars, probe>>

InitEval ==
    /\ windows = EmptyDict
    /\ pending_alerts = EmptyDict
    /\ recent_alerts = EmptyDict
    /\ alerts = <<>>
    /\ maintenance_logs = EmptyDict
    /\ emitted = <<>>
    /\ InitStabilizer
    /\ InitOneManager
    /\ last_call = NoCall
    /\ predictions = <<>>
    /\ failures = <<>>
    /\ probe = NoProbe
    /\ feed = <<Healthy>>
    /\ \E t \in ProbeNows, s \in ProbeSamples, c \in ProbeConfigs,
          e \in BOOLEAN :
           /\ now = t
           /\ evaluation =
                  [exists |-> e, given |-> IF e THEN s ELSE <<>>,
                   samples |-> IF e THEN s ELSE <<>>, cfg |-> c,
                   done |-> FALSE, may_proceed |-> FALSE]

NextEval == EvaluateCall

SpecEval == InitEval /\ [][NextEval]_vars

\* the samples of the window given to evaluate() that are inside the window
\* duration at the time of the call
FreshSamples ==
    {i \in 1..Len(evaluation.given) :
        evaluation.given[i].timestamp
            >= now - evaluation.cfg.duration_seconds}

\* C15: evaluate returns may_proceed = false whenever fewer than 3 samples
\* remain in the window after pruning, and when no window exists for the
\* key, for every configuration and every sample content.
C15_FewSamplesNeverApprove ==
    (evaluation.done /\ (~evaluation.exists \/ Cardinality(FreshSamples) < 3))
        => ~evaluation.may_proceed

\* C15 at work: a window given three or more samples of which fewer than
\* three were left after pruning was evaluated, under the configuration that
\* sets every other condition aside
C15_Witness ==
    /\ evaluation.done
    /\ evaluation.exists
    /\ Len(evaluation.given) >= 3
    /\ Cardinality(FreshSamples) < 3
    /\ Len(evaluation.samples) = Cardinality(FreshSamples)
    /\ evaluation.cfg.risk_threshold = 0

(***************************************************************************)
(* Properties of the alert pipeline (Spec)                                  *)
(***************************************************************************)
\* C1: after any sequence of check_and_create_alerts, acknowledge_alert,
\* resolve_alert and cleanup_old_data calls, every (machine_id, alert_type)
\* has at most one row in state ACTIVE, ACKNOWLEDGED or IN_PROGRESS.
C1_AtMostOneUnresolved ==
    \A i, j \in AlertIds :
        (/\ i # j
         /\ SameKey(alerts[i], alerts[j])
         /\ alerts[i].state \in UnresolvedStates)
            => alerts[j].state \notin UnresolvedStates

\* C1 at work: a second alert of a key was created once the first was
\* resolved
C1_Witness ==
    \E i, j \in AlertIds :
        /\ i < j
        /\ SameKey(alerts[i], alerts[j])
        /\ alerts[i].state = "RESOLVED"
        /\ alerts[j].state \in UnresolvedStates

\* the alerts of row i's machine created in the 60 seconds from row i's
\* creation on
CreatedWithinMinute(i) ==
    {j \in AlertIds :
        /\ alerts[j].machine_id = alerts[i].machine_id
        /\ alerts[j].created_at >= alerts[i].created_at
        /\ alerts[j].created_at < alerts[i].created_at + RATE_WINDOW_SECONDS}

\* C4: for every machine and every 60-second interval, at most
\* MAX_ALERTS_PER_MACHINE_PER_MINUTE alerts are created for the machine
\* within the interval.
C4_RateLimit ==
    \A i \in AlertIds :
        Cardinality(CreatedWithinMinute(i))
            <= MAX_ALERTS_PER_MACHINE_PER_MINUTE

\* C9: whenever an alert of type T is created for machine M, a pending entry
\* for (M, T) existed before the call and its last_triggered minus
\* first_triggered at emission is at least PERSISTENCE_WINDOWS[T].
C9_EmittedAfterPersistence ==
    \A i \in AlertIds :
        /\ emitted[i].had_pending
        /\ emitted[i].last_triggered - emitted[i].first_triggered
               >= PERSISTENCE_WINDOWS[alerts[i].alert_type]

\* C9 at work: an alert emitted on the very call where its pending entry
\* reached the persistence window
C9_Witness ==
    \E i \in AlertIds :
        /\ emitted[i].had_pending
        /\ emitted[i].last_triggered = alerts[i].created_at
        /\ emitted[i].last_triggered - emitted[i].first_triggered
               = PERSISTENCE_WINDOWS[alerts[i].alert_type]

\* C10: an alert of type T is created for machine M only if T's trigger
\* condition held on every check_and_create_alerts call for M between the
\* pending entry's first_triggered and the emitting call.
C10_ContinuouslyPresent ==
    \A i \in AlertIds : emitted[i].sustained

(***************************************************************************)
(* Properties of the store and the lifecycle (SpecStore)                    *)
(***************************************************************************)
\* the state changes one step makes to the rows are valid transitions
ValidChanges ==
    /\ Len(alerts') >= Len(alerts)
    /\ \A i \in AlertIds :
           alerts'[i].state # alerts[i].state
               => <<alerts[i].state, alerts'[i].state>>
                      \in VALID_ALERT_TRANSITIONS

\* acknowledge_alert on a row that is not ACTIVE fails and changes nothing
AcknowledgeRejected ==
    \A i \in AlertIds, op \in Operators :
        alerts[i].state # "ACTIVE"
            => LET out == AcknowledgeOutcome(alerts, i, op, now)
               IN  ~out.success /\ out.alerts = alerts

\* resolve_alert on a row that is neither ACKNOWLEDGED nor IN_PROGRESS fails
\* and changes nothing
ResolveRejected ==
    \A i \in AlertIds, inp \in ResolveInputs :
        alerts[i].state \notin {"ACKNOWLEDGED", "IN_PROGRESS"}
            => LET out == ResolveOutcome(alerts, maintenance_logs, i, inp, now)
               IN  /\ ~out.success
                   /\ out.alerts = alerts
                   /\ out.logs = maintenance_logs

\* C5: every change of an alert's state by any operation is one of the five
\* valid transitions; acknowledge_alert on a non-ACTIVE alert and
\* resolve_alert on an alert not in {ACKNOWLEDGED, IN_PROGRESS} return
\* success = false and leave the row unchanged; a LOGGED alert never changes
\* state again.
C5_Lifecycle ==
    /\ [][/\ ValidChanges
          /\ \A i \in AlertIds :
                 alerts[i].state = "LOGGED" => alerts'[i].state = "LOGGED"]_vars
    /\ [](AcknowledgeRejected /\ ResolveRejected)

\* C5 at work: an alert that went all the way to LOGGED next to one that was
\* acknowledged, on which a second acknowledge is rejected
C5_Witness ==
    \E i, j \in AlertIds :
        /\ alerts[i].state = "LOGGED"
        /\ alerts[j].state = "ACKNOWLEDGED"
        /\ ~AcknowledgeOutcome(alerts, j, "OP-001", now).success

\* row i has its maintenance log
HasLog(rows, logs, i) ==
    /\ LogIdOf(i) \in DOMAIN logs
    /\ logs[LogIdOf(i)].alert_id = i

\* C6: a successful resolve_alert sets the alert to RESOLVED and inserts the
\* maintenance log with id "LOG-" + alert_id and matching alert_id in one
\* transaction: right after any successful resolve the log row exists, and
\* if the log insert fails the alert is not left in state RESOLVED.
C6_ResolveAtomic ==
    /\ [][\A i \in AlertIds :
              (alerts[i].state # "RESOLVED" /\ alerts'[i].state = "RESOLVED")
                  => HasLog(alerts', maintenance_logs', i)]_vars
    /\ [](\A i \in AlertIds, inp \in ResolveInputs :
              LET out == ResolveOutcome(alerts, maintenance_logs, i, inp, now)
              IN  /\ out.success
                      => /\ out.alerts[i].state = "RESOLVED"
                         /\ HasLog(out.alerts, out.logs, i)
                  /\ out.raised => out.alerts = alerts)

\* C6 at work: one alert resolved with its log written, and one whose log id
\* is taken, so that resolving it raises
C6_Witness ==
    \E i, j \in AlertIds :
        /\ alerts[i].state = "RESOLVED"
        /\ HasLog(alerts, maintenance_logs, i)
        /\ alerts[j].state = "ACKNOWLEDGED"
        /\ \E inp \in ResolveInputs :
               ResolveOutcome(alerts, maintenance_logs, j, inp, now).raised

\* the maintenance log resolve_alert writes for row i, read off the row
LogWrittenFor(i) ==
    [machine_id |-> alerts[i].machine_id, alert_id |-> i,
     created_at |-> alerts[i].created_at,
     resolved_at |-> alerts[i].resolved_at,
     operator |-> alerts[i].resolved_by,
     root_cause |-> alerts[i].root_cause,
     resolution_notes |-> alerts[i].resolution_notes,
     downtime_minutes |-> alerts[i].downtime_minutes,
     severity |-> alerts[i].severity, alert_type |-> alerts[i].alert_type]

\* C7: while an alert is RESOLVED its maintenance log exists and every field
\* has the value resolve wrote, whatever store or REST operations follow.
C7_AuditImmutable ==
    \A i \in AlertIds :
        alerts[i].state = "RESOLVED"
            => /\ LogIdOf(i) \in DOMAIN maintenance_logs
               /\ maintenance_logs[LogIdOf(i)] = LogWrittenFor(i)

(***************************************************************************)
(* Properties of the lifecycle operations (Spec)                            *)
(***************************************************************************)
\* the ids a caller may pass: those of the rows and one that names no row
CallableIds == 1..(Len(alerts) + 1)

\* C16: every acknowledge_alert or resolve_alert call that returns
\* success = false (operator id too short, root cause or notes too short,
\* negative downtime, unknown alert id, alert in the wrong state) leaves the
\* alerts and maintenance_logs tables exactly as they were.
C16_FailureChangesNothing ==
    /\ \A id \in CallableIds, op \in Operators :
           LET out == AcknowledgeOutcome(alerts, id, op, now)
           IN  ~out.success => out.alerts = alerts
    /\ \A id \in CallableIds, inp \in ResolveInputs :
           LET out == ResolveOutcome(alerts, maintenance_logs, id, inp, now)
           IN  (~out.success /\ ~out.raised)
                   => /\ out.alerts = alerts
                      /\ out.logs = maintenance_logs

\* C16 at work: an ACKNOWLEDGED row next to a RESOLVED one with its log;
\* acknowledge fails on both and on an unknown id, resolve fails on the
\* RESOLVED row and, for each invalid input, on the ACKNOWLEDGED one
C16_Witness ==
    \E j, k \in AlertIds :
        /\ alerts[j].state = "ACKNOWLEDGED"
        /\ alerts[k].state = "RESOLVED"
        /\ LogIdOf(k) \in DOMAIN maintenance_logs
        /\ \A id \in CallableIds, op \in Operators :
               ~AcknowledgeOutcome(alerts, id, op, now).success
        /\ \A inp \in ResolveInputs :
               ~ResolveOutcome(alerts, maintenance_logs, k, inp, now).success
        /\ Cardinality(
               {inp \in ResolveInputs :
                   ~ResolveOutcome(alerts, maintenance_logs, j, inp,
                                   now).success}) = 4

\* the operator ids of a repeated call: those of Operators of valid length,
\* and another operator
ValidOperators ==
    {op \in Operators \cup {"OP-002"} :
        Len(op) >= MIN_OPERATOR_ID_LENGTH}

\* the second of two acknowledge_alert calls, made at time t on the table
\* `rows` the first left: it is refused for the state of the row and the
\* table stays as it was
SecondAcknowledgeRefused(rows, i, t) ==
    \A op \in ValidOperators :
        LET second == AcknowledgeOutcome(rows, i, op, t)
        IN  /\ ~second.success
            /\ AcknowledgeError(rows, i, op)
                   = <<"Alert is", "ACKNOWLEDGED",
                       "can only acknowledge ACTIVE alerts">>
            /\ second.alerts = rows

\* C17: of two acknowledge_alert calls on one alert, the first, made on the
\* ACTIVE alert, succeeds and the second returns the invalid-state error;
\* state, acknowledged_by and acknowledged_at of the row remain those the
\* first call wrote.
C17_AcknowledgeTwice ==
    \A i \in AlertIds :
        /\ alerts[i].state = "ACTIVE"
               => \A op \in ValidOperators :
                      LET first == AcknowledgeOutcome(alerts, i, op, now)
                      IN  /\ first.success
                          /\ first.alerts[i].state = "ACKNOWLEDGED"
                          /\ first.alerts[i].acknowledged_by = op
                          /\ first.alerts[i].acknowledged_at = now
                          /\ \A t \in {now, now + TickSeconds} :
                                 SecondAcknowledgeRefused(first.alerts, i, t)
        /\ alerts[i].state = "ACKNOWLEDGED"
               => SecondAcknowledgeRefused(alerts, i, now)

\* C17 at work: a row acknowledged at an earlier instant by OP-001, on
\* which OP-002 calls acknowledge_alert now
C17_Witness ==
    \E i \in AlertIds :
        /\ alerts[i].state = "ACKNOWLEDGED"
        /\ alerts[i].acknowledged_by = "OP-001"
        /\ alerts[i].acknowledged_at < now
        /\ AcknowledgeOutcome(alerts, i, "OP-002", now).alerts[i]
               = alerts[i]

\* the inputs of a repeated resolve: the valid ones of ResolveInputs and
\* those of another operator
ValidResolveInputs ==
    {inp \in ResolveInputs \cup
                 {[operator_id |-> "OP-002", root_cause |-> "Misalignment",
                   resolution_notes |-> "Realigned the shaft.",
                   downtime_minutes |-> 30]} :
        ResolveError(<<>>, 1, inp) = <<"Alert not found">>}

\* the maintenance logs of alert i
LogsOf(logs, i) == {k \in DOMAIN logs : logs[k].alert_id = i}

\* the second of two resolve_alert calls, made at time t on the tables the
\* first left: it is refused for the state of the row, both tables stay as
\* they were, and the alert has one maintenance log
SecondResolveRefused(rows, logs, i, t) ==
    /\ Cardinality(LogsOf(logs, i)) = 1
    /\ \A inp \in ValidResolveInputs :
           LET second == ResolveOutcome(rows, logs, i, inp, t)
           IN  /\ ~second.success
               /\ ~second.raised
               /\ ResolveError(rows, i, inp)
                      = <<"Alert is", "RESOLVED",
                          "can only resolve ACKNOWLEDGED or IN_PROGRESS alerts">>
               /\ second.alerts = rows
               /\ second.logs = logs

\* C18: of two resolve_alert calls on one alert, the second returns the
\* invalid-state error, the resolution fields of the row stay those the
\* first call wrote, and the alert has exactly one maintenance log row.
C18_ResolveTwice ==
    \A i \in AlertIds :
        /\ alerts[i].state = "ACKNOWLEDGED"
               => \A inp \in ValidResolveInputs :
                      LET first == ResolveOutcome(alerts, maintenance_logs,
                                                  i, inp, now)
                      IN  /\ first.success
                          /\ first.alerts[i]
                                 = ResolvedRows(alerts, i, inp, now)[i]
                          /\ \A t \in {now, now + TickSeconds} :
                                 SecondResolveRefused(first.alerts,
                                                      first.logs, i, t)
        /\ alerts[i].state = "RESOLVED"
               => SecondResolveRefused(alerts, maintenance_logs, i, now)

\* C18 at work: a row resolved at an earlier instant by OP-001, on which
\* OP-002 calls resolve_alert now
C18_Witness ==
    \E i \in AlertIds :
        /\ alerts[i].state = "RESOLVED"
        /\ alerts[i].resolved_by = "OP-001"
        /\ alerts[i].resolved_at < now
        /\ LogsOf(maintenance_logs, i) = {LogIdOf(i)}
        /\ \E inp \in ValidResolveInputs :
               /\ inp.operator_id = "OP-002"
               /\ ResolveOutcome(alerts, maintenance_logs, i, inp,
                                 now).alerts[i] = alerts[i]

\* some operation on the store (pipeline, lifecycle, cleanup or REST
\* route), taken now, moves row i to state `to`
CanMove(i, to) == ENABLED (NextStore /\ alerts'[i].state = to)

\* C19: each of the five allowed transitions can be performed by some
\* operation; in particular an operation (start_work) moves an ACKNOWLEDGED
\* alert to IN_PROGRESS, so that IN_PROGRESS is reachable.
C19_StartWorkAvailable ==
    \A i \in AlertIds :
        /\ alerts[i].state = "ACTIVE" => CanMove(i, "ACKNOWLEDGED")
        /\ alerts[i].state = "ACKNOWLEDGED"
               => CanMove(i, "RESOLVED") /\ CanMove(i, "IN_PROGRESS")

\* no operation writes IN_PROGRESS: no row is ever in that state
NeverInProgress ==
    \A i \in AlertIds : alerts[i].state # "IN_PROGRESS"

(***************************************************************************)
(* Specification: the pipeline over a store whose INSERT may fail.          *)
(* sqlite3 raises from cursor.execute (a locked or unwritable database, a   *)
(* taken id); Database.get_connection rolls back and raises again, and      *)
(* alert_manager.py has no try around self.db.create_alert.  last_call      *)
(* records how the call ended:                                              *)
(*   store_failed  an INSERT of the call raised                             *)
(*   raised        the call ended in an exception instead of a return       *)
(*   created       the list the caller received                             *)
(*   inserted      the ids of the rows the call inserted                    *)
(***************************************************************************)
\* the branch of the call in which the store refuses the INSERT, if any
StoreFailures == {"none", "rul", "health", "anomaly"}

\* one branch of check_and_create_alerts: `after` is what the branch leaves
\* when the store works.  When it inserts and the INSERT raises, the
\* pending entry is already deleted (del self.pending_alerts[key] comes
\* first), no row is written, recent_alerts is not appended to and
\* created_alerts not extended.
BranchOrRaise(before, after, fails) ==
    IF fails /\ Len(after.alerts) > Len(before.alerts)
    THEN [st |-> [before EXCEPT !.pending = after.pending], raised |-> TRUE]
    ELSE [st |-> after, raised |-> FALSE]

\* check_and_create_alerts under self._lock after the rate-limit check:
\* an exception leaves the with block and the branches after it do not run
RunPipelineOrRaise(st, w, machine_id, inp, t, fail) ==
    LET b1 == BranchOrRaise(st, RulBranch(st, w, machine_id, inp, t),
                            fail = "rul")
        b2 == IF b1.raised THEN b1
              ELSE BranchOrRaise(b1.st,
                                 HealthBranch(b1.st, w, machine_id, inp, t),
                                 fail = "health")
    IN  IF b2.raised THEN b2
        ELSE BranchOrRaise(b2.st,
                           AnomalyBranch(b2.st, w, machine_id, inp, t),
                           fail = "anomaly")

\* AlertManager.check_and_create_alerts over a store that may refuse the
\* INSERT of branch `fail`
CheckAndCreateAlertsOrRaise(machine_id, inp, fail) ==
    LET p0 == CleanupOldPendingAlerts(pending_alerts, now)
        r0 == CleanupOldRateLimitData(recent_alerts, now)
        r1 == DictSet(r0, machine_id, RateLimitBucket(r0, machine_id, now))
    IN  IF ~CheckRateLimit(r0, machine_id, now)
        THEN /\ pending_alerts' = MarkSustained(p0, machine_id, inp)
             /\ recent_alerts' = r1
             /\ last_call' = NoCall
             /\ UNCHANGED <<now, windows, alerts, maintenance_logs, emitted,
                            feed>>
        ELSE LET risk_score ==
                     calculate_risk_score(inp.rul_hours, inp.health_score,
                                          inp.anomaly_score)
                 w1 == FeedAllWindows(windows, machine_id, risk_score, now)
                 st0 == [pending |-> p0, recent |-> r1, alerts |-> alerts,
                         created |-> <<>>, emits |-> <<>>]
                 out == RunPipelineOrRaise(st0, w1, machine_id, inp, now,
                                           fail)
             IN  /\ windows' = w1
                 /\ pending_alerts' =
                        MarkSustained(out.st.pending, machine_id, inp)
                 /\ recent_alerts' = out.st.recent
                 /\ alerts' = out.st.alerts
                 /\ emitted' =
                        emitted \o EmitRecords(out.st.emits, pending_alerts,
                                               w1, inp)
                 /\ last_call' =
                        [store_failed |-> out.raised,
                         raised |-> out.raised,
                         created |-> IF out.raised THEN <<>>
                                     ELSE out.st.created,
                         inserted |-> out.st.created]
                 /\ UNCHANGED <<now, maintenance_logs, feed>>

InitFault ==
    /\ InitPipeline
    /\ InitStabilizer
    /\ InitOneManager
    /\ InitProbe
    /\ feed \in {RisingCritical, RulOnly}

NextFault ==
    \/ /\ \E m \in Machines, fail \in StoreFailures :
              ~Sampled(m) /\ CheckAndCreateAlertsOrRaise(m, Reading, fail)
       /\ UNCHANGED <<stabVars, concVars, evaluation, metricVars, probe>>
    \/ TickPipe

SpecFault == InitFault /\ [][NextFault]_vars

\* C20: if the store insert fails while an alert is being emitted,
\* check_and_create_alerts does not propagate the error to its caller, and
\* the alerts created earlier in the same call are still returned.
C20_StoreErrorContained ==
    last_call.store_failed
        => /\ ~last_call.raised
           /\ last_call.created = last_call.inserted

\* the alert whose INSERT failed is dropped: the rows and the rate bucket
\* hold the alerts inserted and nothing else
FailedAlertDropped ==
    /\ Len(alerts) = Len(emitted)
    /\ \A m \in DOMAIN recent_alerts :
           Len(recent_alerts[m])
               <= Cardinality({i \in AlertIds : alerts[i].machine_id = m})

\* a call that inserted one alert and failed on the next
FailedAfterInsert ==
    last_call.store_failed /\ last_call.inserted # <<>>

(***************************************************************************)
(* Specification: two request threads in acknowledge_alert / resolve_alert  *)
(* on one alert.  Neither method takes AlertManager._lock; a call is two    *)
(* store calls, Database.get_alert and then Database.acknowledge_alert or   *)
(* Database.resolve_alert, each one transaction.  A thread is               *)
(*   [pc, op, calls, outcomes]: where it stands, the method it is in, the   *)
(*   calls it has begun, and how each call that returned ended              *)
(*   ([op, success, raised, passed]; passed: the state check let it by).    *)
(***************************************************************************)
\* the calls one thread makes
MaxLifeCalls == 2

LifeOps == {"acknowledge", "resolve"}

\* the request of each thread: its operator and what it reports
OperatorOf(t) == IF t = "T1" THEN "OP-001" ELSE "OP-002"
InputOf(t) ==
    [operator_id |-> OperatorOf(t),
     root_cause |-> IF t = "T1" THEN "Bearing wear" ELSE "Misalignment",
     resolution_notes |-> IF t = "T1"
                          THEN "Replaced bearing, tested operation."
                          ELSE "Realigned the shaft.",
     downtime_minutes |-> IF t = "T1" THEN 120 ELSE 30]

IdleThread == [pc |-> "idle", op |-> "none", calls |-> 0, outcomes |-> <<>>]

Returned(th, success, raised, passed) ==
    [th EXCEPT !.pc = "idle",
               !.outcomes = Append(@, [op |-> th.op, success |-> success,
                                       raised |-> raised,
                                       passed |-> passed])]

\* acknowledge_alert / resolve_alert up to the state check: the inputs are
\* valid, Database.get_alert reads the row, a row in the wrong state ends
\* the call
LifeGetAlert(t, op) ==
    /\ threads[t].pc = "idle"
    /\ threads[t].calls < MaxLifeCalls
    /\ LET th == [threads[t] EXCEPT !.op = op, !.calls = @ + 1]
           ok == IF op = "acknowledge" THEN alerts[1].state = "ACTIVE"
                 ELSE alerts[1].state \in {"ACKNOWLEDGED", "IN_PROGRESS"}
       IN  threads' =
               [threads EXCEPT ![t] =
                   IF ok THEN [th EXCEPT !.pc = "checked"]
                   ELSE Returned(th, FALSE, FALSE, FALSE)]
    /\ UNCHANGED <<now, pipelineVars, stabVars, alert_manager, managers,
                   probeVars>>

\* acknowledge_alert from self.db.acknowledge_alert on: the UPDATE and the
\* success read off cursor.rowcount
LifeAcknowledge(t) ==
    /\ threads[t].pc = "checked"
    /\ threads[t].op = "acknowledge"
    /\ LET updated == DbAcknowledgeAlert(alerts, 1, OperatorOf(t), now)
       IN  /\ alerts' = updated
           /\ threads' =
                  [threads EXCEPT ![t] =
                      Returned(@, updated # alerts, FALSE, TRUE)]
    /\ UNCHANGED <<now, windows, pending_alerts, recent_alerts,
                   maintenance_logs, emitted, feed, stabVars, alert_manager,
                   managers, probeVars>>

\* resolve_alert from self.db.resolve_alert on
LifeResolve(t) ==
    /\ threads[t].pc = "checked"
    /\ threads[t].op = "resolve"
    /\ LET db == DbResolveAlert(alerts, maintenance_logs, 1, InputOf(t), now)
       IN  /\ alerts' = db.alerts
           /\ maintenance_logs' = db.logs
           /\ threads' =
                  [threads EXCEPT ![t] =
                      Returned(@, db.result = "true", db.result = "raised",
                               TRUE)]
    /\ UNCHANGED <<now, windows, pending_alerts, recent_alerts, emitted,
                   feed, stabVars, alert_manager, managers, probeVars>>

\* one ACTIVE alert in the store, both threads idle
InitLife ==
    /\ now = 0
    /\ windows = EmptyDict
    /\ pending_alerts = EmptyDict
    /\ recent_alerts = EmptyDict
    /\ alerts = DbCreateAlert(<<>>, "M-001", "critical_rul", "critical", 0)
    /\ maintenance_logs = EmptyDict
    /\ emitted = <<>>
    /\ feed = RulOnly
    /\ InitStabilizer
    /\ InitProbe
    /\ alert_manager = 0
    /\ managers = EmptyDict
    /\ threads = [t \in Threads |-> IdleThread]

NextLife ==
    \/ \E t \in Threads, op \in LifeOps : LifeGetAlert(t, op)
    \/ \E t \in Threads : LifeAcknowledge(t)
    \/ \E t \in Threads : LifeResolve(t)
    \/ TickPipe

SpecLife == InitLife /\ [][NextLife]_vars

\* the calls of method op that returned success: (thread, number of call)
Successes(op) ==
    {c \in Threads \X (1..MaxLifeCalls) :
        /\ c[2] <= Len(threads[c[1]].outcomes)
        /\ threads[c[1]].outcomes[c[2]].op = op
        /\ threads[c[1]].outcomes[c[2]].success}

\* C21: two concurrent resolve_alert calls on one ACKNOWLEDGED alert,
\* interleaved at store-call granularity, behave as if run one after the
\* other: exactly one returns success, exactly one maintenance log row is
\* written and the resolution fields are those of the successful call;
\* likewise exactly one of two concurrent acknowledge_alert calls on an
\* ACTIVE alert succeeds.
C21_LifecycleSerializable ==
    /\ Cardinality(Successes("acknowledge"))
           = IF alerts[1].state = "ACTIVE" THEN 0 ELSE 1
    /\ Cardinality(Successes("resolve"))
           = IF alerts[1].state = "RESOLVED" THEN 1 ELSE 0
    /\ Cardinality(LogsOf(maintenance_logs, 1))
           = Cardinality(Successes("resolve"))
    /\ \A c \in Successes("acknowledge") :
           alerts[1].acknowledged_by = OperatorOf(c[1])
    /\ \A c \in Successes("resolve") :
           /\ alerts[1] = ResolvedRows(
                  [alerts EXCEPT ![1].resolved_at = NULL], 1, InputOf(c[1]),
                  alerts[1].resolved_at)[1]
           /\ maintenance_logs[LogIdOf(1)].operator = OperatorOf(c[1])
    /\ \A t \in Threads : \A k \in 1..Len(threads[t].outcomes) :
           ~threads[t].outcomes[k].raised

\* two calls of method op that both passed the state check, of which one
\* succeeded and the other failed
RacedCalls(op) ==
    \E c \in Successes(op), t \in Threads :
        /\ t # c[1]
        /\ \E k \in 1..Len(threads[t].outcomes) :
               /\ threads[t].outcomes[k].op = op
               /\ threads[t].outcomes[k].passed
               /\ ~threads[t].outcomes[k].success

\* C21 at work: both threads raced in acknowledge_alert and then in
\* resolve_alert
C21_Witness ==
    RacedCalls("acknowledge") /\ RacedCalls("resolve")

(***************************************************************************)
(* Specification: two request threads in predict_rul for one machine.       *)
(* ml_stabilizer.py takes no lock.  A smoothed call reads the cache and     *)
(* the last history entry, appends its result to the history, and writes    *)
(* the cache and returns.  A thread is [pc, calls, entered, seen, raw,      *)
(* ret]: where it stands, the calls it has begun, current_time of the       *)
(* call, the history it read, the raw prediction and what it will return.   *)
(***************************************************************************)
\* the calls one thread makes
MaxStabCalls == 2

IdlePredictor ==
    [pc |-> "idle", calls |-> 0, entered |-> 0, seen |-> <<>>,
     raw |-> [rul |-> 0, health |-> 0], ret |-> [rul |-> 0, health |-> 0]]

\* predict_rul up to the read of the history in _stabilize_prediction: a
\* call within the prediction interval returns the cached pair
PredictEnter(t, machine_id, raw) ==
    /\ threads[t].pc = "idle"
    /\ threads[t].calls < MaxStabCalls
    /\ IF /\ machine_id \in DOMAIN last_prediction_time
          /\ now - last_prediction_time[machine_id]
                 < MIN_PREDICTION_INTERVAL_SECONDS
          /\ machine_id \in DOMAIN stable_predictions
       THEN /\ threads' = [threads EXCEPT ![t].calls = @ + 1]
            /\ rul_track' =
                   Track(rul_track, machine_id, raw.rul,
                         stable_predictions[machine_id].rul, FALSE)
       ELSE /\ threads' =
                   [threads EXCEPT
                       ![t].pc = "stabilizing", ![t].calls = @ + 1,
                       ![t].entered = now, ![t].raw = raw,
                       ![t].seen =
                           DictGet(prediction_history, machine_id, <<>>)]
            /\ UNCHANGED rul_track
    /\ UNCHANGED <<now, pipelineVars, prediction_history, stable_predictions,
                   last_prediction_time, alert_manager, managers, probeVars>>

\* _stabilize_prediction from the smoothing on: the entry computed from the
\* history the thread read is appended to the history as it is now
PredictAppend(t, machine_id) ==
    /\ threads[t].pc = "stabilizing"
    /\ LET out == StabilizePrediction(
                      DictSet(EmptyDict, machine_id, threads[t].seen),
                      machine_id, threads[t].raw)
           entry == out.history[machine_id][Len(out.history[machine_id])]
       IN  /\ prediction_history' =
                  DictSet(prediction_history, machine_id,
                      Append(DictGet(prediction_history, machine_id, <<>>),
                             entry))
           /\ threads' =
                  [threads EXCEPT
                      ![t].pc = "appended",
                      ![t].ret = [rul |-> out.rul, health |-> out.health]]
    /\ UNCHANGED <<now, pipelineVars, stable_predictions,
                   last_prediction_time, rul_track, alert_manager, managers,
                   probeVars>>

\* predict_rul: the cache is written and the pair returned
PredictReturn(t, machine_id) ==
    /\ threads[t].pc = "appended"
    /\ stable_predictions' =
           DictSet(stable_predictions, machine_id, threads[t].ret)
    /\ last_prediction_time' =
           DictSet(last_prediction_time, machine_id, threads[t].entered)
    /\ rul_track' =
           Track(rul_track, machine_id, threads[t].raw.rul,
                 threads[t].ret.rul, FALSE)
    /\ threads' = [threads EXCEPT ![t].pc = "idle"]
    /\ UNCHANGED <<now, pipelineVars, prediction_history, alert_manager,
                   managers, probeVars>>

InitStabConc ==
    /\ InitPipeline
    /\ InitStabilizer
    /\ InitProbe
    /\ alert_manager = 0
    /\ managers = EmptyDict
    /\ threads = [t \in Threads |-> IdlePredictor]
    /\ feed = <<Healthy>>

NextStabConc ==
    \/ \E t \in Threads, m \in Machines, raw \in RawPredictions :
           PredictEnter(t, m, raw)
    \/ \E t \in Threads, m \in Machines : PredictAppend(t, m)
    \/ \E t \in Threads, m \in Machines : PredictReturn(t, m)
    \/ TickStabilizer /\ UNCHANGED <<pipelineVars, concVars, probeVars>>

SpecStabConc == InitStabConc /\ [][NextStabConc]_vars

\* the history of every machine is one that calls run one after the other
\* leave: no entry lies above the one before it
SerialHistory ==
    \A m \in DOMAIN prediction_history :
        \A i \in 1..(Len(prediction_history[m]) - 1) :
            prediction_history[m][i + 1].rul <= prediction_history[m][i].rul

\* C22: two concurrent predict_rul calls for one machine produce the history
\* and the results of some serial order of the two calls, so that the
\* returned RUL values are non-increasing in completion order.
C22_PredictSerializable ==
    /\ SerialHistory
    /\ \A m \in DOMAIN rul_track : ~rul_track[m].rose

(***************************************************************************)
(* metrics_tracker.py: MetricsTracker.  Time is `now` in seconds; an age    *)
(* in hours is the age in seconds over SECONDS_PER_HOUR, kept in seconds.   *)
(* A prediction is [machine_id, predicted_at, outcome, actual_failure_time, *)
(* lead_time]; the last two are <<>> for None or <<value>>.  Its id         *)
(* PRED-<counter> is its index, a failure's id FAIL-<counter> its index.    *)
(* `feed` holds the workload of the run.                                    *)
(***************************************************************************)
SECONDS_PER_HOUR == 3600
PREDICTION_WINDOW_HOURS == 48

\* the predictions and failures one run records
MaxPredictions == 10
MaxFailures == 2
\* the hours a run lasts
MaxMetricHours == 96
\* the hours that pass between two calls
MetricStepHours == {20, 28}

\* what is asked of the tracker: the machines, how many predictions are
\* recorded and until when.  Two machines with a few predictions at two
\* instants, and one machine with a burst of predictions at once.
MetricWorkloads ==
    {[machines |-> {"M-001", "M-002"}, predictions |-> 3, until |-> 20],
     [machines |-> {"M-001"}, predictions |-> MaxPredictions, until |-> 0]}

\* MetricsTracker.record_prediction
RecordPrediction(machine_id) ==
    /\ Len(predictions) < feed.predictions
    /\ now <= feed.until * SECONDS_PER_HOUR
    /\ predictions' =
           Append(predictions,
               [machine_id |-> machine_id, predicted_at |-> now,
                outcome |-> "PENDING", actual_failure_time |-> <<>>,
                lead_time |-> <<>>])
    /\ UNCHANGED <<now, pipelineVars, stabVars, concVars, evaluation,
                   last_call, failures, probe>>

\* record_failure, the loop: the PENDING predictions of the machine made
\* within the window before t
Matching(preds, machine_id, t) ==
    {i \in 1..Len(preds) :
        /\ preds[i].machine_id = machine_id
        /\ preds[i].outcome = "PENDING"
        /\ 0 < t - preds[i].predicted_at
        /\ t - preds[i].predicted_at
               <= PREDICTION_WINDOW_HOURS * SECONDS_PER_HOUR}

\* a choice of the oldest matching prediction
OldestMatch(preds, machine_id, t) ==
    LET q == Matching(preds, machine_id, t)
    IN  {i \in q : \A j \in q :
            \/ preds[i].predicted_at < preds[j].predicted_at
            \/ preds[i].predicted_at = preds[j].predicted_at /\ i <= j}

\* record_failure, the loop: a prediction replaces the one held when its
\* time_diff is smaller, so that the youngest matching prediction is kept,
\* of several of one age the first in the dict
MatchingPrediction(preds, machine_id, t) ==
    LET q == Matching(preds, machine_id, t)
    IN  {i \in q : \A j \in q :
            \/ preds[i].predicted_at > preds[j].predicted_at
            \/ preds[i].predicted_at = preds[j].predicted_at /\ i <= j}

\* MetricsTracker.record_failure at time t: the two dicts it leaves
RecordFailureOutcome(preds, fails, machine_id, t) ==
    LET match == MatchingPrediction(preds, machine_id, t)
    IN  IF match = {}
        THEN [predictions |-> preds,
              failures |-> Append(fails,
                  [machine_id |-> machine_id, occurred_at |-> t,
                   was_predicted |-> FALSE, prediction_id |-> <<>>,
                   lead_time |-> <<>>])]
        ELSE LET i == CHOOSE x \in match : TRUE
                 best_lead_time == t - preds[i].predicted_at
             IN  [predictions |->
                      [preds EXCEPT ![i].outcome = "TP",
                                    ![i].actual_failure_time = <<t>>,
                                    ![i].lead_time = <<best_lead_time>>],
                  failures |-> Append(fails,
                      [machine_id |-> machine_id, occurred_at |-> t,
                       was_predicted |-> TRUE, prediction_id |-> <<i>>,
                       lead_time |-> <<best_lead_time>>])]

RecordFailure(machine_id) ==
    /\ Len(failures) < MaxFailures
    /\ LET out == RecordFailureOutcome(predictions, failures, machine_id, now)
       IN  /\ predictions' = out.predictions
           /\ failures' = out.failures
    /\ UNCHANGED <<now, pipelineVars, stabVars, concVars, evaluation,
                   last_call, probe>>

\* an expiry that does not look at the outcome
ExpireAnyOutcome(preds, t, max_age_hours) ==
    IF preds = <<>> THEN preds
    ELSE [i \in 1..Len(preds) |->
             IF t - preds[i].predicted_at > max_age_hours * SECONDS_PER_HOUR
             THEN [preds[i] EXCEPT !.outcome = "FP"]
             ELSE preds[i]]

\* MetricsTracker.expire_pending_predictions(max_age_hours) at time t
ExpirePendingPredictions(preds, t, max_age_hours) ==
    IF preds = <<>> THEN preds
    ELSE [i \in 1..Len(preds) |->
             IF /\ preds[i].outcome = "PENDING"
                /\ t - preds[i].predicted_at
                       > max_age_hours * SECONDS_PER_HOUR
             THEN [preds[i] EXCEPT !.outcome = "FP"]
             ELSE preds[i]]

\* MetricsTracker.calculate_metrics: the expiry is all it changes
CalculateMetrics ==
    /\ predictions' =
           ExpirePendingPredictions(predictions, now, PREDICTION_WINDOW_HOURS)
    /\ UNCHANGED <<now, pipelineVars, stabVars, concVars, evaluation,
                   last_call, failures, probe>>

TickMetrics ==
    /\ \E h \in MetricStepHours :
           /\ now + h * SECONDS_PER_HOUR <= MaxMetricHours * SECONDS_PER_HOUR
           /\ now' = now + h * SECONDS_PER_HOUR
    /\ UNCHANGED <<pipelineVars, stabVars, concVars, probeVars>>

\* MetricsTracker.__init__
InitMetrics ==
    /\ now = 0
    /\ windows = EmptyDict
    /\ pending_alerts = EmptyDict
    /\ recent_alerts = EmptyDict
    /\ alerts = <<>>
    /\ maintenance_logs = EmptyDict
    /\ emitted = <<>>
    /\ InitStabilizer
    /\ InitOneManager
    /\ InitProbe
    /\ feed \in MetricWorkloads

NextMetrics ==
    \/ \E m \in feed.machines : RecordPrediction(m)
    \/ \E m \in feed.machines : RecordFailure(m)
    \/ CalculateMetrics
    \/ TickMetrics

SpecMetrics == InitMetrics /\ [][NextMetrics]_vars

\* C23: record_failure(machine) matches the earliest-predicted PENDING
\* prediction of the machine whose age satisfies 0 < now - predicted_at
\* <= 48 h, marks exactly that one TRUE_POSITIVE with lead_time_hours equal
\* to its age, and when no prediction qualifies records the failure as not
\* predicted without changing any prediction.
C23_EarliestPredictionMatched ==
    \A m \in feed.machines :
        LET out == RecordFailureOutcome(predictions, failures, m, now)
            failure == out.failures[Len(out.failures)]
            oldest == OldestMatch(predictions, m, now)
        IN  IF oldest = {}
            THEN /\ ~failure.was_predicted
                 /\ out.predictions = predictions
            ELSE \A i \in 1..Len(predictions) :
                     IF i \in oldest
                     THEN /\ out.predictions[i].outcome = "TP"
                          /\ out.predictions[i].lead_time
                                 = <<now - predictions[i].predicted_at>>
                          /\ failure.prediction_id = <<i>>
                     ELSE out.predictions[i] = predictions[i]

\* calculate_metrics, the counts: the predictions with one outcome
OutcomeCount(preds, outcome) ==
    Cardinality({i \in 1..Len(preds) : preds[i].outcome = outcome})

\* what calculate_metrics leaves of each prediction
ExpiryStep ==
    CalculateMetrics =>
        \A i \in 1..Len(predictions) :
            LET age == now - predictions[i].predicted_at
                window == PREDICTION_WINDOW_HOURS * SECONDS_PER_HOUR
            IN  /\ predictions[i].outcome = "PENDING" /\ age > window
                    => predictions'[i].outcome = "FP"
                /\ predictions'[i].outcome = "PENDING" => age <= window
                /\ predictions[i].outcome = "TP"
                    => predictions'[i] = predictions[i]

\* MaxPredictions predictions of one machine at hour 0 and one failure of
\* the machine, at hour 20
BurstThenFailure ==
    /\ Len(predictions) = MaxPredictions
    /\ \A i \in 1..Len(predictions) : predictions[i].predicted_at = 0
    /\ Len(failures) = 1
    /\ failures[1].occurred_at = 20 * SECONDS_PER_HOUR

\* the burst: one prediction is TRUE_POSITIVE with a lead time of 20 h and,
\* past the window, the expiry makes the others FALSE_POSITIVE
BurstOutcome ==
    BurstThenFailure =>
        /\ OutcomeCount(predictions, "TP") = 1
        /\ \A i \in 1..Len(predictions) :
               predictions[i].outcome = "TP"
                   => predictions[i].lead_time = <<20 * SECONDS_PER_HOUR>>
        /\ now > PREDICTION_WINDOW_HOURS * SECONDS_PER_HOUR =>
               OutcomeCount(ExpirePendingPredictions(predictions, now,
                                PREDICTION_WINDOW_HOURS), "FP")
                   = MaxPredictions - 1

\* C24: after expire_pending_predictions, run by calculate_metrics, every
\* prediction that was PENDING with an age above 48 h is FALSE_POSITIVE,
\* every prediction still PENDING has an age of at most 48 h and the
\* TRUE_POSITIVE predictions are unchanged; so 10 predictions followed by one
\* failure 20 h later yield exactly one TRUE_POSITIVE and, once 48 h have
\* elapsed, 9 FALSE_POSITIVE.
C24_ExpiryMakesFalsePositives == [][ExpiryStep]_vars /\ []BurstOutcome

\* the burst after calculate_metrics ran past the window: one TRUE_POSITIVE
\* prediction, all the others FALSE_POSITIVE
C24_Witness ==
    /\ BurstThenFailure
    /\ OutcomeCount(predictions, "TP") = 1
    /\ OutcomeCount(predictions, "FP") = MaxPredictions - 1

(***************************************************************************)
(* The three sweeps on their own: _cleanup_old_pending_alerts and           *)
(* _cleanup_old_rate_limit_data of alert_manager.py and                     *)
(* expire_pending_predictions of metrics_tracker.py, each run at `now` on   *)
(* what the manager and the tracker hold.  The run starts with entries the  *)
(* manager made at second 0 and at the first instant of the run; the        *)
(* tracker records its predictions and failures during the run.  `probe`    *)
(* remembers which sweeps removed some entries and kept others.             *)
(***************************************************************************)
\* the short ticks and the long ticks one run takes
MaxShortTicks == 1
MaxLongTicks == 2
\* a short tick in seconds and a long one in hours
SweepTicks == [short |-> 45, long |-> 30 * SECONDS_PER_HOUR]
SweepStart == 2 * SweepTicks.short
SweepWorkload ==
    [machines |-> {"M-001"}, predictions |-> 2,
     until |-> MaxLongTicks * 30 + 1]

\* pending entries of two alert types, made at second 0 or at the start
SweepPendingStates ==
    LET entry(alert_type, severity) ==
            {<<>>} \cup {<<NewPendingAlert(alert_type, severity, t)>> :
                            t \in {0, SweepStart}}
    IN  {[k \in {key \in {<<"M-001", "warning_rul">>,
                          <<"M-001", "critical_rul">>} :
                    (IF key[2] = "warning_rul" THEN w ELSE c) # <<>>} |->
             (IF k[2] = "warning_rul" THEN w ELSE c)[1]] :
         w \in entry("warning_rul", "warning"),
         c \in entry("critical_rul", "critical")}

\* the creation times kept for two machines
SweepRecentStates ==
    {[m \in {x \in {"M-001", "M-002"} :
                (IF x = "M-001" THEN a ELSE b) # <<>>} |->
         IF m = "M-001" THEN a ELSE b] :
     a \in {<<>>, <<0>>, <<0, SweepStart>>, <<SweepStart>>},
     b \in {<<>>, <<SweepStart>>}}

Partial(before, after, empty, name) ==
    IF after # before /\ after # empty
    THEN [probe EXCEPT !.partial = @ \cup {name}]
    ELSE probe

\* AlertManager._cleanup_old_pending_alerts
SweepPendingAlerts ==
    LET swept == CleanupOldPendingAlerts(pending_alerts, now)
    IN  /\ pending_alerts' = swept
        /\ probe' = Partial(pending_alerts, swept, EmptyDict,
                            "pending_alerts")
        /\ UNCHANGED <<now, windows, recent_alerts, alerts,
                       maintenance_logs, emitted, feed, stabVars, concVars,
                       evaluation, last_call, metricVars>>

\* AlertManager._cleanup_old_rate_limit_data
SweepRateLimitData ==
    LET swept == CleanupOldRateLimitData(recent_alerts, now)
    IN  /\ recent_alerts' = swept
        /\ probe' = Partial(recent_alerts, swept, EmptyDict,
                            "recent_alerts")
        /\ UNCHANGED <<now, windows, pending_alerts, alerts,
                       maintenance_logs, emitted, feed, stabVars, concVars,
                       evaluation, last_call, metricVars>>

\* MetricsTracker.expire_pending_predictions() with its default of 48 h
SweepPredictions ==
    LET swept == ExpirePendingPredictions(predictions, now,
                                          PREDICTION_WINDOW_HOURS)
    IN  /\ predictions' = swept
        /\ probe' =
               IF /\ swept # predictions
                  /\ OutcomeCount(swept, "PENDING") > 0
               THEN [probe EXCEPT !.partial = @ \cup {"predictions"}]
               ELSE probe
        /\ UNCHANGED <<now, pipelineVars, stabVars, concVars, evaluation,
                       last_call, failures>>

TickSweep ==
    /\ \/ /\ ((now - SweepStart) % SweepTicks.long) + SweepTicks.short
                 <= MaxShortTicks * SweepTicks.short
          /\ now' = now + SweepTicks.short
       \/ /\ now + SweepTicks.long
                 <= SweepStart + MaxShortTicks * SweepTicks.short
                        + MaxLongTicks * SweepTicks.long
          /\ now' = now + SweepTicks.long
    /\ UNCHANGED <<pipelineVars, stabVars, concVars, probeVars>>

InitSweep ==
    /\ now = SweepStart
    /\ windows = EmptyDict
    /\ pending_alerts \in SweepPendingStates
    /\ recent_alerts \in SweepRecentStates
    /\ alerts = <<>>
    /\ maintenance_logs = EmptyDict
    /\ emitted = <<>>
    /\ InitStabilizer
    /\ InitOneManager
    /\ evaluation = NoEvaluation
    /\ last_call = NoCall
    /\ predictions = <<>>
    /\ failures = <<>>
    /\ probe = [done |-> FALSE, partial |-> {}]
    /\ feed = SweepWorkload

NextSweep ==
    \/ SweepPendingAlerts
    \/ SweepRateLimitData
    \/ SweepPredictions
    \/ \E m \in feed.machines : RecordPrediction(m)
    \/ \E m \in feed.machines : failures = <<>> /\ RecordFailure(m)
    \/ TickSweep

SpecSweep == InitSweep /\ [][NextSweep]_vars

\* C26: the sweeps are idempotent: _cleanup_old_pending_alerts,
\* _cleanup_old_rate_limit_data or expire_pending_predictions run twice in a
\* row at the same instant leaves exactly the state left by running it once.
C26_SweepsIdempotent ==
    /\ LET once == CleanupOldPendingAlerts(pending_alerts, now)
       IN  CleanupOldPendingAlerts(once, now) = once
    /\ LET once == CleanupOldRateLimitData(recent_alerts, now)
       IN  CleanupOldRateLimitData(once, now) = once
    /\ LET once == ExpirePendingPredictions(predictions, now,
                                            PREDICTION_WINDOW_HOURS)
       IN  ExpirePendingPredictions(once, now, PREDICTION_WINDOW_HOURS)
               = once

\* each of the three sweeps has removed or expired some entries and kept
\* others
C26_Witness ==
    probe.partial = {"pending_alerts", "recent_alerts", "predictions"}

(***************************************************************************)
(* ttf_forecaster.py: TTFForecaster.forecast_ttf with the linear forecast,  *)
(* the one used when Prophet is not installed or fails.  Health is in       *)
(* percent.  A projected health is kept as a fraction over the number of    *)
(* recent readings, so that the comparison with the threshold is exact.     *)
(* `probe` holds the history and the horizon of one call and its result.    *)
(***************************************************************************)
\* self.critical_threshold
CRITICAL_THRESHOLD == 30
\* len(self.health_history[machine_id]) < 10
MIN_FORECAST_READINGS == 10
\* health_values[-10:]
RECENT_READINGS == 10

\* the health readings a history is made of and the horizons asked for
ForecastReadings == {0, 25, 29, 30, 31, 40, 60, 100}
ForecastHorizons == {1, 24, 48}
\* histories of 9, 10 and 12 readings that go from one reading to another
ForecastHistories ==
    {[i \in 1..n |-> IF i <= n - RECENT_READINGS + 1 THEN first ELSE last] :
        n \in {9, 10, 12}, first \in ForecastReadings,
        last \in ForecastReadings}

\* _linear_forecast: recent_values
RecentValues(health_values) ==
    IF Len(health_values) <= RECENT_READINGS THEN health_values
    ELSE SubSeq(health_values, Len(health_values) - RECENT_READINGS + 1,
                Len(health_values))

\* _linear_forecast: future_health at one hour, after max(0, min(100, .)),
\* as [num, den]; degradation_rate is (recent[-1] - recent[0]) / len(recent)
FutureHealth(health_values, hour) ==
    LET recent == RecentValues(health_values)
        den == Len(recent)
        current_health == health_values[Len(health_values)]
        raw == current_health * den + (recent[den] - recent[1]) * hour
    IN  [num |-> Max2(0, Min2(100 * den, raw)), den |-> den]

BelowCritical(health_values, hour) ==
    LET f == FutureHealth(health_values, hour)
    IN  f.num < CRITICAL_THRESHOLD * f.den

\* _linear_forecast, the loop: ttf_hours when the loop ends, <<>> for None
FirstCriticalHour(health_values, horizon_hours) ==
    LET below == {hour \in 0..(horizon_hours - 1) :
                     BelowCritical(health_values, hour)}
    IN  IF below = {} THEN <<>>
        ELSE <<CHOOSE hour \in below : \A x \in below : hour <= x>>

\* TTFForecaster._linear_forecast: `round(ttf_hours, 1) if ttf_hours else
\* None` is None for None and for hour 0
LinearForecast(health_values, horizon_hours) ==
    LET ttf_hours == FirstCriticalHour(health_values, horizon_hours)
    IN  [status |-> "success", method |-> "linear",
         ttf_hours |-> IF ttf_hours # <<>> /\ ttf_hours[1] # 0
                       THEN ttf_hours ELSE <<>>]

\* TTFForecaster.forecast_ttf
ForecastTtf(history, horizon_hours) ==
    IF Len(history) < MIN_FORECAST_READINGS
    THEN [status |-> "insufficient_data", method |-> "", ttf_hours |-> <<>>]
    ELSE LinearForecast(history, horizon_hours)

ForecastCall ==
    /\ ~probe.done
    /\ probe' = [probe EXCEPT
                    !.done = TRUE,
                    !.result = ForecastTtf(probe.history,
                                           probe.horizon_hours)]
    /\ UNCHANGED <<now, pipelineVars, stabVars, concVars, evaluation,
                   last_call, metricVars>>

InitForecast ==
    /\ InitPipeline
    /\ InitStabilizer
    /\ InitOneManager
    /\ evaluation = NoEvaluation
    /\ last_call = NoCall
    /\ predictions = <<>>
    /\ failures = <<>>
    /\ feed = <<>>
    /\ \E history \in ForecastHistories, horizon_hours \in ForecastHorizons :
           probe = [done |-> FALSE, history |-> history,
                    horizon_hours |-> horizon_hours, result |-> <<>>]

NextForecast == ForecastCall

SpecForecast == InitForecast /\ [][NextForecast]_vars

\* C25: the forecast's ttf_hours is the first projected hour, counting from
\* hour 0 of the projection, at which the projected health is below the
\* critical threshold 30, and is null only if the projected health stays at
\* or above 30 over the whole horizon.
C25_TtfIsFirstCriticalHour ==
    probe.done /\ probe.result.status = "success" =>
        LET below == {hour \in 0..(probe.horizon_hours - 1) :
                         BelowCritical(probe.history, hour)}
        IN  /\ probe.result.ttf_hours = <<>> <=> below = {}
            /\ \A hour \in below :
                   probe.result.ttf_hours[1] <= hour
            /\ below # {} => probe.result.ttf_hours[1] \in below

(***************************************************************************)
(* calculate_risk_score on its own: `probe` holds the arguments of one      *)
(* call and the score returned, in thousandths.  The anomaly score is       *)
(* -decision_function of the isolation forest or a z-score, of either sign. *)
(***************************************************************************)
RiskRulHours == {-50, 0, 72, MAX_RUL_HOURS, MAX_RUL_HOURS + 1, 1000}
RiskHealthScores == {-20, 0, 50, 100, 150}
RiskAnomalyScores == {-100000, -1, 0, 5, 10, 11, 100000}

RiskScoreCall ==
    /\ ~probe.done
    /\ probe' = [probe EXCEPT
                    !.done = TRUE,
                    !.result = calculate_risk_score(probe.rul_hours,
                                   probe.health_score, probe.anomaly_score)]
    /\ UNCHANGED <<now, pipelineVars, stabVars, concVars, evaluation,
                   last_call, metricVars>>

InitRisk ==
    /\ InitPipeline
    /\ InitStabilizer
    /\ InitOneManager
    /\ evaluation = NoEvaluation
    /\ last_call = NoCall
    /\ predictions = <<>>
    /\ failures = <<>>
    /\ feed = <<>>
    /\ \E rul_hours \in RiskRulHours, health_score \in RiskHealthScores,
          anomaly_score \in RiskAnomalyScores :
           probe = [done |-> FALSE, rul_hours |-> rul_hours,
                    health_score |-> health_score,
                    anomaly_score |-> anomaly_score, result |-> 0]

NextRisk == RiskScoreCall

SpecRisk == InitRisk /\ [][NextRisk]_vars

\* C27: calculate_risk_score(rul, health, anomaly_score) returns a value in
\* [0, 1] for every input, including RUL above MAX_RUL_HOURS or below 0,
\* health outside [0, 100] and negative or very large anomaly scores.
C27_RiskScoreBounded ==
    probe.done => 0 <= probe.result /\ probe.result <= 1000

\* a call with RUL above MAX_RUL_HOURS, health above 100 and a negative
\* anomaly score, whose weighted sum is below 0
C27_Witness ==
    /\ probe.done
    /\ probe.rul_hours > MAX_RUL_HOURS
    /\ probe.health_score > 100
    /\ probe.anomaly_score < 0
    /\ probe.result = 0

(***************************************************************************)
(* Properties of EvaluationWindow.evaluate (SpecEval), continued            *)
(***************************************************************************)
\* the samples given to evaluate() that are inside the window duration at
\* the time of the call, in their order
FreshGiven ==
    SelectSeq(evaluation.given,
        LAMBDA s : s.timestamp >= now - evaluation.cfg.duration_seconds)

\* the slope of the least-squares line through the samples has the sign of
\* the sum over the pairs of samples of (time apart) * (risk apart)
PairwiseTrend(samples) ==
    LET n == Len(samples)
        later(i) ==
            [j \in 1..n |->
                IF j > i
                THEN (samples[j].timestamp - samples[i].timestamp)
                         * (samples[j].risk_score - samples[i].risk_score)
                ELSE 0]
    IN  SeqSum([i \in 1..n |-> SeqSum(later(i))])

\* the seconds between the first and the last sample
SampleSpan(samples) ==
    samples[Len(samples)].timestamp - samples[1].timestamp

SamplesAt(w, machine_id, alert_type, t) ==
    IF <<machine_id, alert_type>> \notin DOMAIN w THEN {}
    ELSE {i \in 1..Len(w[<<machine_id, alert_type>>]) :
             w[<<machine_id, alert_type>>][i].timestamp = t}

\* history only: what the call for a machine finds for an alert type: the
\* trigger threshold holds, the window fed by the call approves, the sensors
\* confirm an alert of critical severity, no alert of the key is unresolved
\* and the machine is not rate-limited
ConditionsHold(machine_id, alert_type, inp, w) ==
    LET severity ==
            IF alert_type \in {"critical_rul", "low_health_critical"}
            THEN "critical"
            ELSE IF alert_type = "anomaly_detected"
                     /\ inp.anomaly_score > ANOMALY_CRITICAL_SCORE
            THEN "critical"
            ELSE "warning"
    IN  /\ TriggerHolds(alert_type, inp)
        /\ ManagerEvaluate(w, machine_id, alert_type, now)
        /\ CheckMultiSensorConfirmation(inp.sensor_data, severity)
        /\ ~CheckDuplicateAlert(alerts, machine_id, alert_type)
        /\ CheckRateLimit(recent_alerts, machine_id, now)

\* history only: per alert type, the instant of the first of the calls,
\* less than 120 s apart and up to this one, on each of which the
\* conditions held; no entry when they do not hold on this call
HeldSince(machine_id, inp, w) ==
    LET before ==
            IF probe.done /\ now - probe.at < STALE_PENDING_SECONDS
            THEN probe.since ELSE EmptyDict
    IN  [a \in {x \in AlertTypes : ConditionsHold(machine_id, x, inp, w)}
            |-> DictGet(before, a, now)]

\* AlertManager.check_and_create_alerts, called once at this instant
SampleCall(machine_id) ==
    /\ ~(probe.done /\ probe.at = now)
    /\ CheckAndCreateAlerts(machine_id, Reading)
    /\ probe' = [done |-> TRUE, machine_id |-> machine_id, at |-> now,
                 since |-> HeldSince(machine_id, Reading, windows')]
    /\ UNCHANGED <<stabVars, concVars, evaluation, last_call, metricVars>>

\* a reading in the critical band that the sensors do not confirm, and a
\* degradation that moves from the warning band into it
CritUnconfirmed == CallInput(20, 45, FALSE, 3, NormalSensors)
WarningToUnconfirmed ==
    <<Warn0, Warn0, Warn3, CritUnconfirmed, CritUnconfirmed, CritUnconfirmed,
      CritUnconfirmed, CritUnconfirmed>>
\* a critical degradation that the anomaly detector flags from the start
AnomalousCritical ==
    [i \in 1..(MaxPipeTicks + 1) |->
        CallInput(20, 25, TRUE, Min2(i - 1, 10), DegradedSensors)]
\* a warning that turns critical and back, the risk rising throughout; the
\* anomaly detector flags the machine late, but for one reading
AnomalyAcrossRateLimit ==
    <<CallInput(40, 45, FALSE, 0, NormalSensors),
      CallInput(40, 45, FALSE, 1, NormalSensors),
      CallInput(40, 45, FALSE, 2, NormalSensors),
      CallInput(20, 25, FALSE, 0, DegradedSensors),
      CallInput(20, 25, FALSE, 0, DegradedSensors),
      CallInput(20, 25, FALSE, 1, DegradedSensors),
      CallInput(20, 25, FALSE, 2, DegradedSensors),
      CallInput(20, 25, TRUE, 3, DegradedSensors),
      CallInput(40, 45, TRUE, 10, NormalSensors),
      CallInput(40, 45, FALSE, 10, NormalSensors),
      CallInput(40, 45, TRUE, 10, NormalSensors),
      CallInput(40, 45, TRUE, 10, NormalSensors)>>
FeedProfiles ==
    PipeProfiles \cup {WarningToUnconfirmed, AnomalousCritical,
                       AnomalyAcrossRateLimit}

InitFeed ==
    /\ InitPipeline
    /\ InitStabilizer
    /\ InitOneManager
    /\ InitProbe
    /\ feed \in FeedProfiles

NextFeed ==
    \/ \E m \in Machines : SampleCall(m)
    \/ TickPipe

SpecFeed == InitFeed /\ [][NextFeed]_vars

\* C30: every check_and_create_alerts call for machine M appends exactly one
\* sample to each of M's five evaluation windows (warning_rul, critical_rul,
\* low_health_warning, low_health_critical, anomaly_detected) before any
\* window is evaluated, whether or not any threshold is crossed and whether
\* or not an alert can currently be emitted.
C30_EveryCallFeedsWindows ==
    [][probe' # probe =>
          \A a \in AlertTypes :
              /\ SamplesAt(windows, probe'.machine_id, a, now) = {}
              /\ Cardinality(SamplesAt(windows', probe'.machine_id, a, now))
                     = 1]_vars

\* the same of the calls made while the machine is not rate-limited
FedWhenNotLimited ==
    [][(probe' # probe
           /\ CheckRateLimit(recent_alerts, probe'.machine_id, now)) =>
          \A a \in AlertTypes :
              /\ SamplesAt(windows, probe'.machine_id, a, now) = {}
              /\ Cardinality(SamplesAt(windows', probe'.machine_id, a, now))
                     = 1]_vars

\* the rows of one key that a step inserts
Inserted(machine_id, alert_type) ==
    {i \in (Len(alerts) + 1)..Len(alerts') :
        /\ alerts'[i].machine_id = machine_id
        /\ alerts'[i].alert_type = alert_type}

\* a call on which the conditions of some of the alert types have held
\* since the pending entry of the key was made, the entry being as old as
\* the persistence window of the type, creates an alert of each such type
CreatedWhenDue(alert_types) ==
    probe' # probe =>
        \A a \in alert_types :
            LET m == probe'.machine_id
                pend == CleanupOldPendingAlerts(pending_alerts, now)
            IN  (/\ a \in DOMAIN probe'.since
                 /\ <<m, a>> \in DOMAIN pend
                 /\ probe'.since[a] <= pend[<<m, a>>].first_triggered
                 /\ now - pend[<<m, a>>].first_triggered
                        >= PERSISTENCE_WINDOWS[a])
                    => Inserted(m, a) # {}

\* no call creates an alert of a key that has an unresolved alert
NoSecondWhileUnresolved ==
    \A m \in Machines, a \in AlertTypes :
        Inserted(m, a) # {} =>
            /\ Cardinality(Inserted(m, a)) = 1
            /\ ~CheckDuplicateAlert(alerts, m, a)

\* the alert types whose branch of check_and_create_alerts is an `if`
FirstBranchTypes == {"critical_rul", "low_health_critical", "anomaly_detected"}
CreatedWhenDueFirstBranch ==
    [][CreatedWhenDue(FirstBranchTypes) /\ NoSecondWhileUnresolved]_vars

\* C28: if on every call for machine M (calls less than 120 s apart) type
\* T's trigger condition holds, its window approves and, for critical
\* severity, multi-sensor confirmation passes, while no unresolved alert of
\* (M, T) exists and M is not rate-limited, then an alert of type T is
\* created on the first call at which now - first_triggered >=
\* PERSISTENCE_WINDOWS[T], and no second alert of (M, T) is created while the
\* first remains unresolved.
C28_AlertCreatedWhenDue ==
    [][CreatedWhenDue(AlertTypes) /\ NoSecondWhileUnresolved]_vars

(***************************************************************************)
(* Specification of one AlertManager that serves two machines: `feed`       *)
(* holds the readings of each machine, and `probe` the machine of the last  *)
(* call and the instant of the last call of each machine, so that every     *)
(* call is a step.  The second machine is sampled on every tick of the      *)
(* first minute and never after; what it leaves in the manager then ages.   *)
(* `probe.swept` holds the keys the last call found stale.                  *)
(***************************************************************************)
TwoMachines == {"M-001", "M-002"}
TwoFeeds ==
    {[m \in TwoMachines |-> IF m = "M-001" THEN p ELSE q] :
        p \in {RisingCritical, WarningToUnconfirmed,
                AnomalyOnNormalSensors, AlternatingRul},
        q \in {RisingCritical, AnomalousCritical}}
\* the second machine is not sampled after this instant
QuietAfter == 4 * TickSeconds

MaxTwoTicks == 14

ReadingOf(machine_id) ==
    feed[machine_id][Min2(now \div TickSeconds + 1, Len(feed[machine_id]))]

\* AlertManager.check_and_create_alerts for one of the machines, called
\* once per machine and instant
TwoCall(machine_id) ==
    /\ probe.at[machine_id] < now
    /\ machine_id = "M-002" => now <= QuietAfter
    /\ CheckAndCreateAlerts(machine_id, ReadingOf(machine_id))
    /\ probe' = [done |-> TRUE, machine_id |-> machine_id,
                 at |-> [probe.at EXCEPT ![machine_id] = now],
                 swept |-> DOMAIN pending_alerts
                     \ DOMAIN CleanupOldPendingAlerts(pending_alerts, now)]
    /\ UNCHANGED <<stabVars, concVars, evaluation, last_call, metricVars>>

\* the clock of the pipeline; the second machine has been sampled at every
\* instant up to QuietAfter
TickTwo ==
    /\ now <= QuietAfter => probe.at["M-002"] = now
    /\ now + TickSeconds <= MaxTwoTicks * TickSeconds
    /\ now' = now + TickSeconds
    /\ UNCHANGED <<pipelineVars, stabVars, concVars, probeVars>>

InitTwo ==
    /\ InitPipeline
    /\ InitStabilizer
    /\ InitOneManager
    /\ evaluation = NoEvaluation
    /\ last_call = NoCall
    /\ predictions = <<>>
    /\ failures = <<>>
    /\ probe = [done |-> FALSE, machine_id |-> "",
                at |-> [m \in TwoMachines |-> -1], swept |-> {}]
    /\ feed \in TwoFeeds

NextTwo ==
    \/ \E m \in TwoMachines : TwoCall(m)
    \/ TickTwo

SpecTwo == InitTwo /\ [][NextTwo]_vars

\* the keys of the pending entries that are stale at the instant t
StaleKeys(t) ==
    {k \in DOMAIN pending_alerts :
        pending_alerts[k].last_triggered < t - STALE_PENDING_SECONDS}

\* a call leaves no stale entry of any machine: the key is gone, or it holds
\* an entry made by this call
StaleEntriesRemoved ==
    probe' # probe =>
        \A k \in StaleKeys(now) :
            \/ k \notin DOMAIN pending_alerts'
            \/ /\ pending_alerts'[k].first_triggered = now
               /\ pending_alerts'[k].trigger_count = 1

\* a row is inserted only for a key whose pending entry was triggered no
\* more than STALE_PENDING_SECONDS before the call
EmittedFromFreshEntry ==
    \A i \in (Len(alerts) + 1)..Len(alerts') :
        LET key == <<alerts'[i].machine_id, alerts'[i].alert_type>>
        IN  /\ key \in DOMAIN pending_alerts
            /\ now - pending_alerts[key].last_triggered
                   <= STALE_PENDING_SECONDS

\* C31: every check_and_create_alerts call removes the pending entries, of
\* any machine, whose last trigger is more than 120 s old before it updates
\* any entry, and an alert is created only from a pending entry whose last
\* trigger is at most 120 s before the creating call
C31_StalePendingNeverEmits ==
    [][StaleEntriesRemoved /\ EmittedFromFreshEntry]_vars

\* a call for one machine has swept a stale entry of the other machine and
\* an alert of the calling machine exists
C31_Witness ==
    /\ probe.done
    /\ probe.at[probe.machine_id] = now
    /\ \E k \in probe.swept : k[1] # probe.machine_id
    /\ \E i \in 1..Len(alerts) : alerts[i].machine_id = probe.machine_id

\* the emit step applied to the manager and the store as they are
EmitStep(machine_id, alert_type) ==
    CreateAlertIfNew(
        [pending |-> pending_alerts, recent |-> recent_alerts,
         alerts |-> alerts, created |-> <<>>, emits |-> <<>>],
        machine_id, alert_type, "warning",
        [first_triggered |-> now, last_triggered |-> now,
         sustained |-> TRUE], now)

HasUnresolved(machine_id, alert_type) ==
    \E i \in 1..Len(alerts) :
        /\ alerts[i].machine_id = machine_id
        /\ alerts[i].alert_type = alert_type
        /\ alerts[i].state \notin {"RESOLVED", "LOGGED"}

\* the emit step returned no id and left the table and the buckets alone
EmitSuppressed(out) ==
    /\ out.created = <<>>
    /\ out.alerts = alerts
    /\ out.recent = recent_alerts

\* the emit step added one ACTIVE row of the key and one timestamp to the
\* bucket of the machine
EmitInserted(out, machine_id, alert_type) ==
    /\ out.created = <<Len(alerts) + 1>>
    /\ Len(out.alerts) = Len(alerts) + 1
    /\ SubSeq(out.alerts, 1, Len(alerts)) = alerts
    /\ out.alerts[Len(alerts) + 1].state = "ACTIVE"
    /\ out.alerts[Len(alerts) + 1].machine_id = machine_id
    /\ out.alerts[Len(alerts) + 1].alert_type = alert_type
    /\ DOMAIN out.recent = DOMAIN recent_alerts \cup {machine_id}
    /\ out.recent[machine_id]
           = Append(DictGet(recent_alerts, machine_id, <<>>), now)
    /\ \A m \in DOMAIN recent_alerts \ {machine_id} :
           out.recent[m] = recent_alerts[m]

\* C32: _create_alert_if_new either finds an unresolved alert of the key,
\* returns no id and leaves the alerts table and the rate bucket of the
\* machine unchanged, or inserts exactly one ACTIVE row and appends exactly
\* one timestamp to the rate bucket of the machine
C32_EmitStepFrame ==
    \A machine_id \in Machines, alert_type \in AlertTypes :
        LET out == EmitStep(machine_id, alert_type)
        IN  /\ out.pending = pending_alerts
            /\ IF HasUnresolved(machine_id, alert_type)
               THEN EmitSuppressed(out)
               ELSE EmitInserted(out, machine_id, alert_type)

\* the store holds an unresolved alert of one key, on which the step is
\* suppressed, and only a resolved alert of another, on which it inserts
C32_Witness ==
    \E machine_id \in Machines :
        \E blocked, free \in AlertTypes :
            /\ HasUnresolved(machine_id, blocked)
            /\ ~HasUnresolved(machine_id, free)
            /\ \E i \in 1..Len(alerts) :
                   /\ alerts[i].machine_id = machine_id
                   /\ alerts[i].alert_type = free
                   /\ alerts[i].state = "RESOLVED"
            /\ EmitStep(machine_id, blocked).created = <<>>
            /\ EmitStep(machine_id, free).created # <<>>

(***************************************************************************)
(* Specification of one stabilizer that serves two machines.  `probe`       *)
(* holds the last call: its number, method, instant, machine and arguments, *)
(* and the pair predict_rul returned (rul in tenths of an hour, health in   *)
(* hundredths of a percent).                                                *)
(***************************************************************************)
MaxCacheCalls == 4

\* the raw predictor's pair in the units of the returned pair
RawReturn(raw) == [rul |-> raw.rul, health |-> 100 * raw.health]

\* StabilizedRULPredictor.predict_rul: the pair it returns
PredictRulReturn(machine_id, raw, bypass_smoothing) ==
    IF bypass_smoothing
    THEN RawReturn(raw)
    ELSE IF /\ machine_id \in DOMAIN last_prediction_time
            /\ now - last_prediction_time[machine_id]
                   < MIN_PREDICTION_INTERVAL_SECONDS
            /\ machine_id \in DOMAIN stable_predictions
    THEN stable_predictions[machine_id]
    ELSE LET out == StabilizePrediction(prediction_history, machine_id, raw)
         IN  [rul |-> out.rul, health |-> out.health]

CachePredict(machine_id, raw, bypass_smoothing) ==
    /\ probe.calls < MaxCacheCalls
    /\ PredictRul(machine_id, raw, bypass_smoothing)
    /\ probe' = [calls |-> probe.calls + 1, op |-> "predict_rul", at |-> now,
                 machine_id |-> machine_id, bypass |-> bypass_smoothing,
                 raw |-> <<raw>>,
                 ret |-> <<PredictRulReturn(machine_id, raw,
                                            bypass_smoothing)>>]
    /\ UNCHANGED <<now, pipelineVars, concVars, evaluation, last_call,
                   metricVars>>

CacheReset(machine_id) ==
    /\ probe.calls < MaxCacheCalls
    /\ ResetMachine(machine_id)
    /\ probe' = [calls |-> probe.calls + 1, op |-> "reset_machine", at |-> now,
                 machine_id |-> machine_id, bypass |-> FALSE,
                 raw |-> <<>>, ret |-> <<>>]
    /\ UNCHANGED <<now, pipelineVars, concVars, evaluation, last_call,
                   metricVars>>

InitCache ==
    /\ InitPipeline
    /\ InitStabilizer
    /\ InitOneManager
    /\ evaluation = NoEvaluation
    /\ last_call = NoCall
    /\ predictions = <<>>
    /\ failures = <<>>
    /\ probe = [calls |-> 0, op |-> "", at |-> 0, machine_id |-> "",
                bypass |-> FALSE, raw |-> <<>>, ret |-> <<>>]
    /\ feed = <<Healthy>>

NextCache ==
    \/ \E m \in TwoMachines, raw \in RawPredictions, b \in BOOLEAN :
           CachePredict(m, raw, b)
    \/ \E m \in TwoMachines : CacheReset(m)
    \/ TickStabilizer /\ UNCHANGED <<pipelineVars, concVars, probeVars>>

SpecCache == InitCache /\ [][NextCache]_vars

\* the step is a predict_rul call without bypass for a machine with a
\* cached prediction refreshed less than MIN_PREDICTION_INTERVAL_SECONDS ago
CachedCall ==
    /\ probe'.calls # probe.calls
    /\ probe'.op = "predict_rul"
    /\ ~probe'.bypass
    /\ probe'.machine_id \in DOMAIN stable_predictions
    /\ probe'.machine_id \in DOMAIN last_prediction_time
    /\ now - last_prediction_time[probe'.machine_id]
           < MIN_PREDICTION_INTERVAL_SECONDS

\* C33: for a machine with a cached stabilized prediction, a predict_rul
\* call without bypass made less than 300 s after the last refresh returns
\* the cached (rul, health) whatever the sample, appends nothing to the
\* prediction history and does not move the refresh timestamp
C33_CachedWithinInterval ==
    [][CachedCall =>
          /\ probe'.ret = <<stable_predictions[probe'.machine_id]>>
          /\ prediction_history' = prediction_history
          /\ last_prediction_time' = last_prediction_time
          /\ stable_predictions' = stable_predictions]_vars

\* a call made after the refresh and within the interval returned the
\* cached pair, which is not the pair of its sample
C33_Witness ==
    /\ probe.op = "predict_rul"
    /\ ~probe.bypass
    /\ probe.machine_id \in DOMAIN last_prediction_time
    /\ probe.machine_id \in DOMAIN stable_predictions
    /\ probe.at > last_prediction_time[probe.machine_id]
    /\ probe.at - last_prediction_time[probe.machine_id]
           < MIN_PREDICTION_INTERVAL_SECONDS
    /\ probe.ret = <<stable_predictions[probe.machine_id]>>
    /\ probe.ret # <<RawReturn(probe.raw[1])>>

\* the machine has no history, no cached prediction and no refresh timestamp
Cleared(hist, stable, last, machine_id) ==
    /\ DictGet(hist, machine_id, <<>>) = <<>>
    /\ machine_id \notin DOMAIN stable
    /\ machine_id \notin DOMAIN last

\* what the stabilizer holds for the machine: <<>> for a missing key
StabilizerState(hist, stable, last, machine_id) ==
    <<DictGet(hist, machine_id, <<>>),
      IF machine_id \in DOMAIN stable THEN <<stable[machine_id]>> ELSE <<>>,
      IF machine_id \in DOMAIN last THEN <<last[machine_id]>> ELSE <<>>>>

\* a predict_rul call with bypass_smoothing, or a reset_machine call, leaves
\* the machine cleared and the other machines as they were
ClearingCallClears ==
    (/\ probe'.calls # probe.calls
     /\ probe'.op = "reset_machine" \/ probe'.bypass)
        => /\ Cleared(prediction_history', stable_predictions',
                      last_prediction_time', probe'.machine_id)
           /\ \A o \in TwoMachines \ {probe'.machine_id} :
                  StabilizerState(prediction_history', stable_predictions',
                                  last_prediction_time', o)
                      = StabilizerState(prediction_history,
                                        stable_predictions,
                                        last_prediction_time, o)

\* a predict_rul call without bypass for a cleared machine returns the raw
\* pair
ClearedReturnsRaw ==
    (/\ probe'.calls # probe.calls
     /\ probe'.op = "predict_rul"
     /\ ~probe'.bypass
     /\ Cleared(prediction_history, stable_predictions,
                last_prediction_time, probe'.machine_id))
        => probe'.ret = <<RawReturn(probe'.raw[1])>>

\* C34: after predict_rul with bypass_smoothing = true, or after
\* reset_machine, the machine has no stabilizer history, no cached
\* prediction and no refresh timestamp, so that the next predict_rul without
\* bypass returns the raw model output; the stabilizer state of the other
\* machines is unchanged
C34_ClearedThenRaw ==
    [][ClearingCallClears /\ ClearedReturnsRaw]_vars

\* the machine was cleared after earlier calls (its returned rul once rose),
\* the last call is the refresh that began its history anew and returned the
\* raw pair, and the other machine kept its cached prediction
C34_Witness ==
    /\ probe.op = "predict_rul"
    /\ ~probe.bypass
    /\ probe.machine_id \in DOMAIN rul_track
    /\ rul_track[probe.machine_id].rose
    /\ probe.machine_id \in DOMAIN prediction_history
    /\ Len(prediction_history[probe.machine_id]) = 1
    /\ probe.machine_id \in DOMAIN last_prediction_time
    /\ last_prediction_time[probe.machine_id] = probe.at
    /\ probe.ret = <<RawReturn(probe.raw[1])>>
    /\ \E o \in TwoMachines \ {probe.machine_id} :
           o \in DOMAIN stable_predictions

(***************************************************************************)
(* Specification of the sampling loop of server.py next to the route that   *)
(* records predictions: the loop calls check_and_create_alerts and collects *)
(* the ids it returns; POST /api/metrics/record-prediction is the one       *)
(* caller of MetricsTracker.record_prediction.                              *)
(***************************************************************************)
MaxRoutePosts == 1

\* the ttf_hours of a request body; `not all([...])` refuses 0
RouteTtfHours == {0, 24}

\* server.record_prediction over MetricsTracker.record_prediction
RecordPredictionRoute(machine_id, ttf_hours) ==
    /\ Len(predictions) < MaxRoutePosts
    /\ predictions' =
           IF ttf_hours = 0
           THEN predictions
           ELSE Append(predictions,
                    [machine_id |-> machine_id, predicted_at |-> now,
                     outcome |-> "PENDING", actual_failure_time |-> <<>>,
                     lead_time |-> <<>>])
    /\ UNCHANGED <<now, pipelineVars, stabVars, concVars, evaluation,
                   last_call, failures, probe>>

InitServe ==
    /\ InitPipeline
    /\ InitStabilizer
    /\ InitOneManager
    /\ InitProbe
    /\ feed = RisingCritical

NextServe ==
    \/ \E m \in Machines : SampleCall(m)
    \/ \E m \in Machines, ttf_hours \in RouteTtfHours :
           RecordPredictionRoute(m, ttf_hours)
    \/ TickPipe

SpecServe == InitServe /\ [][NextServe]_vars

\* C35: every alert the pipeline creates has a PredictionRecord with outcome
\* PENDING recorded in the MetricsTracker for its machine by the call that
\* creates it
C35_AlertRecordsPrediction ==
    [][\A i \in (Len(alerts) + 1)..Len(alerts') :
           \E j \in (Len(predictions) + 1)..Len(predictions') :
               /\ predictions'[j].machine_id = alerts'[i].machine_id
               /\ predictions'[j].outcome = "PENDING"]_vars

\* the rows a step inserts whose alert type is one of alert_types
InsertedOf(alert_types) ==
    {i \in (Len(alerts) + 1)..Len(alerts') :
        alerts'[i].alert_type \in alert_types}

\* C36: one check_and_create_alerts call creates at most three alerts: at
\* most one of warning_rul and critical_rul, at most one of
\* low_health_warning and low_health_critical, and at most one
\* anomaly_detected
C36_OneAlertPerSection ==
    [][/\ Len(alerts') - Len(alerts) <= 3
       /\ Cardinality(InsertedOf({"warning_rul", "critical_rul"})) <= 1
       /\ Cardinality(InsertedOf({"low_health_warning",
                                  "low_health_critical"})) <= 1
       /\ Cardinality(InsertedOf({"anomaly_detected"})) <= 1]_vars

\* the last call created three alerts: one RUL, one health and one anomaly
C36_Witness ==
    /\ probe.done
    /\ probe.at = now
    /\ LET made == {i \in 1..Len(alerts) : alerts[i].created_at = now}
       IN  /\ Cardinality(made) = 3
           /\ \E i, j, k \in made :
                  /\ alerts[i].alert_type = "critical_rul"
                  /\ alerts[j].alert_type = "low_health_critical"
                  /\ alerts[k].alert_type = "anomaly_detected"

\* a column that holds SQL NULL, whatever the type of its values
IsNull(v) == ToString(v) = ToString(NULL)

\* resolved_by, resolved_at, root_cause, resolution_notes, downtime_minutes
ResolutionFields(row) ==
    <<row.resolved_by, row.resolved_at, row.root_cause, row.resolution_notes,
      row.downtime_minutes>>

NoResolutionFields(row) ==
    \A k \in 1..Len(ResolutionFields(row)) : IsNull(ResolutionFields(row)[k])

AllResolutionFields(row) ==
    \A k \in 1..Len(ResolutionFields(row)) : ~IsNull(ResolutionFields(row)[k])

\* C37: in every reachable state of the alerts table an ACTIVE alert has no
\* acknowledged_by and no resolution fields; an ACKNOWLEDGED or IN_PROGRESS
\* alert has acknowledged_by and acknowledged_at set and no resolution
\* fields; a RESOLVED or LOGGED alert has acknowledged_by, resolved_by,
\* resolved_at, root_cause, resolution_notes and downtime_minutes all set
C37_FieldsFollowState ==
    \A i \in 1..Len(alerts) :
        /\ alerts[i].state = "ACTIVE" =>
               /\ IsNull(alerts[i].acknowledged_by)
               /\ NoResolutionFields(alerts[i])
        /\ alerts[i].state \in {"ACKNOWLEDGED", "IN_PROGRESS"} =>
               /\ ~IsNull(alerts[i].acknowledged_by)
               /\ ~IsNull(alerts[i].acknowledged_at)
               /\ NoResolutionFields(alerts[i])
        /\ alerts[i].state \in {"RESOLVED", "LOGGED"} =>
               /\ ~IsNull(alerts[i].acknowledged_by)
               /\ AllResolutionFields(alerts[i])

\* a row went through every state of the lifecycle: it is LOGGED, and was
\* acknowledged and resolved by an operator at instants of the run
C37_Witness ==
    \E i \in 1..Len(alerts) :
        /\ alerts[i].state = "LOGGED"
        /\ alerts[i].acknowledged_by \in Operators
        /\ alerts[i].created_at <= alerts[i].acknowledged_at
        /\ alerts[i].acknowledged_at <= alerts[i].resolved_at
        /\ alerts[i].resolved_at < now

\* a call without anomaly leaves no pending anomaly_detected entry of the
\* machine
AnomalyPendingCleared ==
    (probe' # probe /\ ~Reading.is_anomaly)
        => <<probe'.machine_id, "anomaly_detected">>
               \notin DOMAIN pending_alerts'

\* an anomaly_detected alert is created from an entry during whose life
\* every reading of the machine was anomalous
AnomalyEmittedSustained ==
    \A i \in (Len(alerts) + 1)..Len(alerts') :
        alerts'[i].alert_type = "anomaly_detected" =>
            pending_alerts[<<alerts'[i].machine_id,
                             "anomaly_detected">>].sustained

\* C38: when check_and_create_alerts is called for machine M with
\* is_anomaly = false, no pending entry for (M, anomaly_detected) exists
\* when the call returns, so that an anomaly_detected alert is created only
\* if no non-anomalous sample was submitted for M between the first trigger
\* of its pending entry and the emission
C38_NonAnomalousClearsPending ==
    [][AnomalyPendingCleared /\ AnomalyEmittedSustained]_vars

\* the part of a dict keyed by (machine, alert type) that belongs to a machine
OfMachine(d, machine_id) ==
    [k \in {x \in DOMAIN d : x[1] = machine_id} |-> d[k]]

\* the step creates no alert of the machine and adds no sample to its windows
NoAlertNoSample(machine_id) ==
    /\ \A i \in (Len(alerts) + 1)..Len(alerts') :
           alerts'[i].machine_id # machine_id
    /\ OfMachine(windows', machine_id) = OfMachine(windows, machine_id)

\* the step creates and updates no pending entry of the machine and removes
\* only entries last triggered more than STALE_PENDING_SECONDS ago
PendingOnlySwept(machine_id) ==
    LET old == OfMachine(pending_alerts, machine_id)
        new == OfMachine(pending_alerts', machine_id)
    IN  /\ DOMAIN new \subseteq DOMAIN old
        /\ \A k \in DOMAIN new : new[k] = old[k]
        /\ \A k \in DOMAIN old \ DOMAIN new :
               now - old[k].last_triggered > STALE_PENDING_SECONDS

\* the step removes the first `cut` timestamps of the bucket of the machine
\* and nothing else
BucketCut(machine_id, cut) ==
    LET old == DictGet(recent_alerts, machine_id, <<>>)
        new == DictGet(recent_alerts', machine_id, <<>>)
    IN  /\ cut <= Len(old)
        /\ new = SubSeq(old, cut + 1, Len(old))

\* the timestamps removed are more than RATE_WINDOW_SECONDS old
BucketTrimmedOlder(machine_id) ==
    \E cut \in 0..Len(DictGet(recent_alerts, machine_id, <<>>)) :
        /\ BucketCut(machine_id, cut)
        /\ \A j \in 1..cut :
               now - recent_alerts[machine_id][j] > RATE_WINDOW_SECONDS

\* the timestamps removed are RATE_WINDOW_SECONDS old or more
BucketTrimmedAtLeast(machine_id) ==
    \E cut \in 0..Len(DictGet(recent_alerts, machine_id, <<>>)) :
        /\ BucketCut(machine_id, cut)
        /\ \A j \in 1..cut :
               now - recent_alerts[machine_id][j] >= RATE_WINDOW_SECONDS

\* C39, as stated: a check_and_create_alerts call for machine A creates no
\* alert for another machine B, adds no sample to B's evaluation windows and
\* creates or updates no pending entry of B; its only effect on B is the
\* removal of B's pending entries older than 120 s and of B's rate-bucket
\* timestamps older than 60 s
C39_OtherMachineUntouched ==
    [][probe' # probe =>
          \A b \in TwoMachines \ {probe'.machine_id} :
              /\ NoAlertNoSample(b)
              /\ PendingOnlySwept(b)
              /\ BucketTrimmedOlder(b)]_vars

\* C39, amended: as stated, but the call removes B's rate-bucket timestamps
\* that are 60 s old or older
C39_OtherMachineUntouchedAtLeast ==
    [][probe' # probe =>
          \A b \in TwoMachines \ {probe'.machine_id} :
              /\ NoAlertNoSample(b)
              /\ PendingOnlySwept(b)
              /\ BucketTrimmedAtLeast(b)]_vars

\* a call for M-001 has swept a pending entry of M-002, whose alert is in
\* the table and whose rate bucket has been trimmed away
C39_Witness ==
    /\ probe.machine_id = "M-001"
    /\ probe.at["M-001"] = now
    /\ \E k \in probe.swept : k[1] = "M-002"
    /\ \E i \in 1..Len(alerts) : alerts[i].machine_id = "M-002"
    /\ "M-002" \notin DOMAIN recent_alerts
    /\ OfMachine(windows, "M-002") # EmptyDict

\* the step is a call that took the pending entry of the key to the emit
\* step: the entry is gone, and neither the sweep (it was not stale) nor a
\* clear (the trigger of its type holds on the reading) removed it
EmitAttempted(key) ==
    /\ key \in DOMAIN pending_alerts
    /\ key \notin DOMAIN pending_alerts'
    /\ now - pending_alerts[key].last_triggered <= STALE_PENDING_SECONDS
    /\ TriggerHolds(key[2], Reading)

\* the emit step is refused exactly when an unresolved alert of the key
\* exists
BlockedOnlyWhileUnresolved ==
    \A key \in DOMAIN pending_alerts :
        EmitAttempted(key) =>
            (Inserted(key[1], key[2]) = {}
                 <=> HasUnresolved(key[1], key[2]))

\* rows are added at the end, under a new id, and no row is modified
RowsOnlyAdded ==
    Len(alerts') > Len(alerts) => SubSeq(alerts', 1, Len(alerts)) = alerts

\* C40: deduplication blocks emission only while an unresolved alert of
\* (M, T) exists: once it is resolved, a condition sustained for the
\* persistence window creates a new alert of (M, T) under another id, and the
\* row of the resolved alert is not modified
C40_ResolvedDoesNotBlock ==
    [][BlockedOnlyWhileUnresolved /\ RowsOnlyAdded]_vars

\* an alert of a key was resolved, and a later call created a second alert
\* of the key next to it
C40_Witness ==
    \E i, j \in 1..Len(alerts) :
        /\ i # j
        /\ SameKey(alerts[i], alerts[j])
        /\ alerts[i].state = "RESOLVED"
        /\ alerts[i].resolved_by \in Operators
        /\ alerts[j].state = "ACTIVE"
        /\ alerts[j].created_at
               >= alerts[i].resolved_at
                      + PERSISTENCE_WINDOWS[alerts[j].alert_type]

=============================================================================
